---- MODULE Spec2Model ----
(***************************************************************************)
(* A model of renn::containers::HashTable (src/Containers/HashTable/       *)
(* HashTable.hpp) over its two primitives, List and DynamicArray.          *)
(*                                                                         *)
(* Representation.  The backing list elements_ is the sequence of nodes    *)
(* met by following next from the sentinel.  A list cursor (ListIterator,  *)
(* a node pointer) is the index of its node in that sequence; End is the   *)
(* sentinel (elements_.end()); Null is a default-constructed iterator      *)
(* (node_ == nullptr); Dangling is a cursor whose node was destroyed; Wild *)
(* is what a read past the end of the bucket array yields.  Inserting or   *)
(* erasing a node renumbers the cursors behind it, which is how a node     *)
(* address stays attached to its node.  The is_valid_ flag of a cursor is  *)
(* only ever cleared on a by-value copy, so every stored cursor has it set *)
(* and it is not part of the table's state.                                *)
(*                                                                         *)
(* A List on its own is modelled as the ring it is: list holds the next    *)
(* and prev links of the sentinel (node 0) and of the allocated nodes, and *)
(* cursor is an iterator object a caller of the list holds, with its node_ *)
(* and its is_valid_ flag.  moved_list is a second List, the one list is   *)
(* moved into.  A DynamicArray on its own is array: the slots of its       *)
(* buffer data_, its size_ and its capacity_.                              *)
(*                                                                         *)
(* Dereferencing Null, or using a Dangling or Wild cursor, is undefined    *)
(* behaviour: the step sets ub and the program is not followed further.    *)
(***************************************************************************)
EXTENDS Integers, Sequences, FiniteSets, TLC

VARIABLES tables, last, ub, list, cursor, moved_list, array,
          trysts, callers, wg, threads

vars == <<tables, last, ub, list, cursor, moved_list, array,
          trysts, callers, wg, threads>>

---------------------------------------------------------------------------
(* Bounds of the model *)

\* No emplace is attempted on a table that already holds this many nodes:
\* MaxNodes in Spec, MaxGrowNodes in SpecGrow and SpecEE (a default table
\* grows on its sixth insertion), MaxPairNodes in SpecPair, MaxLifeNodes in
\* SpecLife.
MaxNodes == 4

MaxGrowNodes == 6

MaxPairNodes == 3

MaxLifeNodes == 2

\* The node addresses a List can allocate: 1..MaxListNodes.
MaxListNodes == 3

\* The nodes the two lists of SpecMove hold together.
MaxMoveNodes == 3

\* The values stored in a List<int>.
ListValues == {1, 2}

\* The largest capacity_ a DynamicArray is grown to.
MaxCapacity == 8

\* The nodes of the table of SpecFail: one more than MIN_BUCKET_COUNT.
MaxFailNodes == 8

\* The width in bits of size_t in the arithmetic of the range insert.
SizeBits == 4

\* The largest capacity_ of the array of SpecRange.
MaxRangeCapacity == 4

\* The longest range given to the range insert.
MaxRange == 2

\* The tryst::StateMachine objects, each with its consumer and its producer.
MaxMachines == 3

\* The threads that call WaitGroup::done(), one call each.
MaxWorkers == 2

\* The threads that call WaitGroup::wait(), one call each.
MaxWaiters == 1

\* The largest argument given to is_prime and next_prime in SpecPrime.
MaxPrimeInput == 60

\* The values stored in a DynamicArray<int>.
ArrayValues == {1, 2}

\* The ranges [first, last) given to the range insert.
Ranges == UNION {[1..n -> ArrayValues] : n \in 0..MaxRange}

\* Keys are ints hashed by std::hash<int>.  0 and 7 collide modulo 7, 0 and
\* 17 modulo 17, 3 and 17 modulo 7; 1, 2, 3 and 4 collide with nothing.
Keys == {0, 1, 7}

KeysGrow == {0, 1, 2, 4, 7}

\* Keys offered to operator[].
KeysSubscript == {3}

\* The keys that collide with no other key, at 7 and at 17 buckets.  SpecGrow
\* offers them in increasing order only: tables that differ by a permutation
\* of these keys behave alike.
Fillers == {1, 2, 3, 4}

KeysEE == {0, 1, 2, 3, 7, 17}

KeysPair == {0, 1, 17}

KeysLife == {0, 7}

\* The keys of SpecFail: one per bucket of a default table, and 7.
KeysFail == 0..7

\* The key/value pairs offered to emplace: every key with "one", and key
\* twice also with "two".
PairsOf(keys, twice) == {<<k, "one">> : k \in keys} \cup {<<twice, "two">>}

\* What may fail in an emplace: nothing, the allocation of the new bucket
\* array in the growth rehash, or the allocation of the list node.
Faults == {"none", "table", "node"}

\* Arguments offered to rehash(n) and reserve(n).
RehashArgs == {0, 17}

ReserveArgs == {17}

TableIds == {"a", "b"}

\* The largest bucket count whose doubling next_prime is compared on.
MaxBucketCount == 40

---------------------------------------------------------------------------
(* Program constants *)

MIN_BUCKET_COUNT == 7

\* MAX_LOAD_FACTOR = 0.8f as the fraction LoadNum / LoadDen.  For the sizes
\* and bucket counts of this model the float products and quotients round to
\* the same integers as the exact fraction does.
LoadNum == 4

LoadDen == 5

End == 0

Null == -1

Dangling == -2

Wild == -3

---------------------------------------------------------------------------
(* Pure helpers *)

Max(x, y) == IF x >= y THEN x ELSE y

Hash(k) == k

\* static_cast<size_t>(bucket_count_ * MAX_LOAD_FACTOR)
\* A threshold rounded up instead of down.
ThresholdCeil(bucket_count) == (bucket_count * LoadNum + LoadDen - 1) \div LoadDen

Threshold(bucket_count) == (bucket_count * LoadNum) \div LoadDen

\* static_cast<size_t>(std::ceil(size_ / MAX_LOAD_FACTOR))
CeilLoad(size) == (size * LoadDen + LoadNum - 1) \div LoadNum

RECURSIVE is_prime_loop(_, _)
is_prime_loop(n, i) ==
    IF i * i > n THEN TRUE
    ELSE IF n % i = 0 \/ n % (i + 2) = 0 THEN FALSE
    ELSE is_prime_loop(n, i + 6)

is_prime(n) ==
    IF n <= 1 THEN FALSE
    ELSE IF n <= 3 THEN TRUE
    ELSE IF n % 2 = 0 \/ n % 3 = 0 THEN FALSE
    ELSE is_prime_loop(n, 5)

\* A growth that takes the next integer instead of the next prime.
NextInteger(n) == n + 1

RECURSIVE next_prime_loop(_)
next_prime_loop(prime) ==
    IF is_prime(prime + 1) THEN prime + 1 ELSE next_prime_loop(prime + 1)

next_prime(n) == IF n <= 2 THEN 2 ELSE next_prime_loop(n)

---------------------------------------------------------------------------
(* The table and its cursors *)

HashNode(k, v) == [key |-> k, value |-> v, cached_hash |-> Hash(k)]

\* DynamicArray<ListIterator>(n, elements_.end())
EndSlots(n) == [i \in 1..n |-> End]

\* HashTable()
EmptyTable ==
    [elements_ |-> <<>>,
     hash_table_ |-> EndSlots(MIN_BUCKET_COUNT),
     size_ |-> 0,
     bucket_count_ |-> MIN_BUCKET_COUNT,
     rehash_threshold_ |-> Threshold(MIN_BUCKET_COUNT)]

\* HashTable(size_t bucket_count): bucket_count_ is the larger of the
\* argument and MIN_BUCKET_COUNT, the bucket array gets as many end() slots
\* as the argument says.
Constructed(bucket_count) ==
    [elements_ |-> <<>>,
     hash_table_ |-> EndSlots(bucket_count),
     size_ |-> 0,
     bucket_count_ |-> Max(bucket_count, MIN_BUCKET_COUNT),
     rehash_threshold_ |-> Threshold(Max(bucket_count, MIN_BUCKET_COUNT))]

\* hash_table_[i]: DynamicArray::operator[] is unchecked.
SlotAt(t, i) == IF i < Len(t.hash_table_) THEN t.hash_table_[i + 1] ELSE Wild

\* ++it on a cursor to a node
Succ(t, c) == IF c < Len(t.elements_) THEN c + 1 ELSE End

\* it->cached_hash_ % bucket_count_
BucketOf(t, c) == t.elements_[c].cached_hash % t.bucket_count_

\* The scan of find and of emplace's duplicate check, from cursor c in bucket
\* b: the cursor of the first node of the run whose key equals k, else End.
\* A negative result is the cursor whose use was undefined behaviour.
RECURSIVE FindFrom(_, _, _, _)
FindFrom(t, b, k, c) ==
    IF c = End THEN End
    ELSE IF c < 0 THEN c
    ELSE IF BucketOf(t, c) # b THEN End
    ELSE IF t.elements_[c].key = k THEN c
    ELSE FindFrom(t, b, k, Succ(t, c))

find(t, k) ==
    LET bucket_index == Hash(k) % t.bucket_count_
    IN  FindFrom(t, bucket_index, k, SlotAt(t, bucket_index))

\* emplace's scan for the insertion position: the cursor behind the run.
RECURSIVE RunEnd(_, _, _)
RunEnd(t, b, c) ==
    IF c = End THEN End
    ELSE IF c < 0 THEN c
    ELSE IF BucketOf(t, c) # b THEN c
    ELSE RunEnd(t, b, Succ(t, c))

---------------------------------------------------------------------------
(* List::emplace and List::erase on the sequence, and what they do to the  *)
(* cursors held in the bucket array                                        *)

\* The index the new node gets when emplaced before position.
NewIndex(elems, position) == IF position = End THEN Len(elems) + 1 ELSE position

ListEmplace(elems, position, node) ==
    LET p == NewIndex(elems, position)
    IN  SubSeq(elems, 1, p - 1) \o <<node>> \o SubSeq(elems, p, Len(elems))

ListErase(elems, p) == SubSeq(elems, 1, p - 1) \o SubSeq(elems, p + 1, Len(elems))

\* A cursor after a node was linked in at index p.
AfterEmplace(c, p) == IF c >= p THEN c + 1 ELSE c

\* A cursor after the node at index p was destroyed.
AfterErase(c, p) == IF c = p THEN Dangling ELSE IF c > p THEN c - 1 ELSE c

---------------------------------------------------------------------------
(* rehash *)

RECURSIVE Redistribute(_, _, _, _)
Redistribute(elems, count, i, new_table) ==
    IF i > Len(elems) THEN new_table
    ELSE LET new_index == elems[i].cached_hash % count
         IN  Redistribute(elems, count, i + 1,
                 IF new_table[new_index + 1] = End
                 THEN [new_table EXCEPT ![new_index + 1] = i]
                 ELSE new_table)

\* A count that ignores the number of elements.
RehashCountIgnoringSize(t, count) == Max(count, MIN_BUCKET_COUNT)

RehashCount(t, count) ==
    Max(Max(count, MIN_BUCKET_COUNT), CeilLoad(t.size_))

\* rehash(count); allocFails: the allocation of new_table throws bad_alloc.
rehash(t, count0, allocFails) ==
    LET count == RehashCount(t, count0)
    IN  IF count = t.bucket_count_ THEN [t |-> t, threw |-> FALSE]
        ELSE IF allocFails THEN [t |-> t, threw |-> TRUE]
        ELSE [t |-> [t EXCEPT
                       !.hash_table_ = Redistribute(t.elements_, count, 1, EndSlots(count)),
                       !.bucket_count_ = count,
                       !.rehash_threshold_ = Threshold(count)],
              threw |-> FALSE]

---------------------------------------------------------------------------
(* emplace *)

\* The result of an operation: the table afterwards, whether it ran into
\* undefined behaviour, whether it threw, and for emplace the returned pair.
\* grew: emplace rehashed to a larger bucket array; swallowed: that rehash
\* threw bad_alloc and emplace went on.
Result(t, isUb, threw, it, inserted) ==
    [t |-> t, ub |-> isUb, threw |-> threw, it |-> it, inserted |-> inserted,
     grew |-> FALSE, swallowed |-> FALSE]

\* Lines 347-367: link the node in behind its bucket's run.
InsertNode(t, k, v, bucket_index, failNode) ==
    LET inserted_position == RunEnd(t, bucket_index, SlotAt(t, bucket_index))
        p == NewIndex(t.elements_, inserted_position)
        shifted == [i \in 1..Len(t.hash_table_) |-> AfterEmplace(t.hash_table_[i], p)]
    IN  IF inserted_position < 0 THEN Result(t, TRUE, FALSE, End, FALSE)
        ELSE IF failNode THEN Result(t, FALSE, TRUE, End, FALSE)
        ELSE Result(
                 [t EXCEPT
                    !.elements_ = ListEmplace(t.elements_, inserted_position, HashNode(k, v)),
                    !.hash_table_ = IF SlotAt(t, bucket_index) = End
                                    THEN [shifted EXCEPT ![bucket_index + 1] = p]
                                    ELSE shifted,
                    !.size_ = t.size_ + 1],
                 FALSE, FALSE, p, TRUE)

\* An emplace that goes on after a failed growth rehash whatever size_ is.
EmplaceAlwaysSwallows(t, k, v, failTable, failNode) ==
    LET hash_value == Hash(k)
        bucket_index == hash_value % t.bucket_count_
        current == FindFrom(t, bucket_index, k, SlotAt(t, bucket_index))
        grow == t.size_ + 1 > t.rehash_threshold_
        rh == IF grow THEN rehash(t, next_prime(t.bucket_count_ * 2), failTable)
              ELSE [t |-> t, threw |-> FALSE]
    IN  IF current < 0 THEN Result(t, TRUE, FALSE, End, FALSE)
        ELSE IF current # End THEN Result(t, FALSE, FALSE, current, FALSE)
        ELSE [InsertNode(rh.t, k, v,
                  IF grow /\ ~rh.threw THEN hash_value % rh.t.bucket_count_
                  ELSE bucket_index,
                  failNode)
              EXCEPT !.grew = grow /\ ~rh.threw, !.swallowed = rh.threw]

\* emplace(k, v); failTable: the growth rehash throws bad_alloc; failNode:
\* the allocation of the list node throws bad_alloc.
emplace(t, k, v, failTable, failNode) ==
    LET hash_value == Hash(k)
        bucket_index == hash_value % t.bucket_count_
        current == FindFrom(t, bucket_index, k, SlotAt(t, bucket_index))
        grow == t.size_ + 1 > t.rehash_threshold_
        rh == IF grow THEN rehash(t, next_prime(t.bucket_count_ * 2), failTable)
              ELSE [t |-> t, threw |-> FALSE]
    IN  IF current < 0 THEN Result(t, TRUE, FALSE, End, FALSE)
        ELSE IF current # End THEN Result(t, FALSE, FALSE, current, FALSE)
        ELSE IF rh.threw /\ t.size_ >= t.bucket_count_
             THEN Result(t, FALSE, TRUE, End, FALSE)
        ELSE [InsertNode(rh.t, k, v,
                  IF grow /\ ~rh.threw THEN hash_value % rh.t.bucket_count_
                  ELSE bucket_index,
                  failNode)
              EXCEPT !.grew = grow /\ ~rh.threw, !.swallowed = rh.threw]

---------------------------------------------------------------------------
(* erase *)

\* erase(iterator position)
erase(t, position) ==
    IF position = End THEN Result(t, FALSE, FALSE, End, FALSE)
    ELSE
    LET bucket_index == BucketOf(t, position)
        slot == SlotAt(t, bucket_index)
        next == Succ(t, position)
        head == IF next # End /\ BucketOf(t, next) = bucket_index THEN next ELSE End
        relinked == IF slot = position
                    THEN [t.hash_table_ EXCEPT ![bucket_index + 1] = head]
                    ELSE t.hash_table_
    IN  IF slot \in {Dangling, Wild} THEN Result(t, TRUE, FALSE, End, FALSE)
        ELSE Result(
                 [t EXCEPT
                    !.elements_ = ListErase(t.elements_, position),
                    !.hash_table_ = [i \in 1..Len(relinked) |-> AfterErase(relinked[i], position)],
                    !.size_ = t.size_ - 1],
                 FALSE, FALSE, End, FALSE)

\* operator[](key): the found node, or else emplace(key, Value{}); Value{}
\* is the empty string.
subscript(t, k, failTable, failNode) ==
    LET it == find(t, k)
    IN  IF it > 0 THEN Result(t, FALSE, FALSE, it, FALSE)
        ELSE emplace(t, k, "", failTable, failNode)

\* erase(const Key& key)
erase_key(t, k) ==
    LET it == find(t, k)
    IN  IF it < 0 THEN Result(t, TRUE, FALSE, End, FALSE)
        ELSE IF it # End THEN erase(t, it)
        ELSE Result(t, FALSE, FALSE, End, FALSE)

\* t[k] = v: operator[] and an assignment through the reference it returns.
subscript_assign(t, k, v, failTable, failNode) ==
    LET r == subscript(t, k, failTable, failNode)
    IN  IF r.ub \/ r.threw THEN r
        ELSE [r EXCEPT !.t.elements_[r.it].value = v]

\* at(key) and operator[](key) const: the found node, or std::out_of_range.
at(t, k) ==
    LET it == find(t, k)
    IN  IF it < 0 THEN Result(t, TRUE, FALSE, End, FALSE)
        ELSE IF it = End THEN Result(t, FALSE, TRUE, End, FALSE)
        ELSE Result(t, FALSE, FALSE, it, FALSE)

\* ++it on any cursor of the ring: the successor of the sentinel is the
\* first node, or the sentinel itself when the list is empty.
RingSucc(t, c) ==
    IF c = End THEN (IF Len(t.elements_) = 0 THEN End ELSE 1) ELSE Succ(t, c)

\* erase(iterator first, iterator second): current = it++; erase(current)
\* until it == second.  Erasing a node renumbers the cursors behind it.
RECURSIVE erase_range(_, _, _)
erase_range(t, it, second) ==
    IF it = second THEN Result(t, FALSE, FALSE, second, FALSE)
    ELSE LET current == it
             next == RingSucc(t, it)
             r == erase(t, current)
         IN  IF r.ub THEN r
             ELSE IF current = End THEN erase_range(r.t, next, second)
             ELSE erase_range(r.t, AfterErase(next, current), AfterErase(second, current))

\* begin(size_t n)
begin_bucket(t, n) == SlotAt(t, n)

\* end(size_t n): the loop over the slots behind n.
RECURSIVE NextBucket(_, _)
NextBucket(t, next_bucket) ==
    IF next_bucket < t.bucket_count_ /\ SlotAt(t, next_bucket) = End
    THEN NextBucket(t, next_bucket + 1)
    ELSE next_bucket

end_bucket(t, n) ==
    LET next_bucket == NextBucket(t, n + 1)
    IN  IF next_bucket < t.bucket_count_ THEN SlotAt(t, next_bucket) ELSE End

---------------------------------------------------------------------------
(* reserve and clear *)

\* DynamicArray::resize(new_size) on the bucket array: the new trailing
\* slots are default-constructed iterators.
ResizeSlots(slots, new_size) ==
    [i \in 1..new_size |-> IF i <= Len(slots) THEN slots[i] ELSE Null]

reserve(t, sz, allocFails) ==
    IF sz > Len(t.hash_table_)
    THEN rehash([t EXCEPT !.hash_table_ = ResizeSlots(t.hash_table_, sz),
                          !.bucket_count_ = sz,
                          !.rehash_threshold_ = Threshold(sz)],
                sz, allocFails)
    ELSE [t |-> t, threw |-> FALSE]

\* A clear that empties the list and resets size_ but keeps the bucket array.
ClearKeepsBuckets(t) == [t EXCEPT !.elements_ = <<>>, !.size_ = 0]

\* clear(): elements_.clear(), a fresh array of MIN_BUCKET_COUNT end()
\* slots, size_ 0, bucket_count_ and rehash_threshold_ reset.
clear(t) ==
    [elements_ |-> <<>>,
     hash_table_ |-> EndSlots(MIN_BUCKET_COUNT),
     size_ |-> 0,
     bucket_count_ |-> MIN_BUCKET_COUNT,
     rehash_threshold_ |-> Threshold(MIN_BUCKET_COUNT)]

\* HashTable(const HashTable& other): an empty table with other's
\* bucket_count_ and rehash_threshold_, into which every node of other's list
\* is inserted in list order.  No allocation fails while copying.
RECURSIVE InsertAll(_, _, _)
InsertAll(t, elems, i) ==
    IF i > Len(elems) THEN t
    ELSE InsertAll(emplace(t, elems[i].key, elems[i].value, FALSE, FALSE).t, elems, i + 1)

CopyOf(other) ==
    InsertAll([elements_ |-> <<>>,
               hash_table_ |-> EndSlots(other.bucket_count_),
               size_ |-> 0,
               bucket_count_ |-> other.bucket_count_,
               rehash_threshold_ |-> other.rehash_threshold_],
              other.elements_, 1)

\* HashTable(HashTable&& other): the new table takes other's list (with its
\* sentinel) and bucket array; other keeps a fresh empty list and a
\* moved-from (empty) bucket array under bucket_count_ 7.
MoveConstructed(other) ==
    [this |-> other,
     other |-> [elements_ |-> <<>>, hash_table_ |-> <<>>, size_ |-> 0,
                bucket_count_ |-> MIN_BUCKET_COUNT,
                rehash_threshold_ |-> Threshold(MIN_BUCKET_COUNT)]]

\* operator=(HashTable&& other): this takes other's list, bucket array,
\* bucket_count_ and rehash_threshold_; size_ is not assigned.  other's
\* bucket array is resized to 7 default-constructed iterators.
MoveAssigned(this, other) ==
    [this |-> [other EXCEPT !.size_ = this.size_],
     other |-> [elements_ |-> <<>>,
                hash_table_ |-> ResizeSlots(<<>>, MIN_BUCKET_COUNT),
                size_ |-> 0,
                bucket_count_ |-> MIN_BUCKET_COUNT,
                rehash_threshold_ |-> Threshold(MIN_BUCKET_COUNT)]]

\* A swap that leaves each table its own size_.
SwapWithoutSize(this, other) ==
    [this |-> [other EXCEPT !.size_ = this.size_],
     other |-> [this EXCEPT !.size_ = other.size_]]

\* swap(HashTable& other): std::swap of hash_table_, elements_, size_,
\* bucket_count_ and rehash_threshold_ (and of the stateless hash_ and
\* equal_).  std::swap of the lists goes through List's move constructor and
\* move assignment, which hand over the heap-allocated sentinel together
\* with the nodes, so the cursors of a bucket array (to nodes and to the
\* sentinel) stay cursors into the list that changes sides with it.
swap(this, other) ==
    [this |-> [elements_ |-> other.elements_,
               hash_table_ |-> other.hash_table_,
               size_ |-> other.size_,
               bucket_count_ |-> other.bucket_count_,
               rehash_threshold_ |-> other.rehash_threshold_],
     other |-> [elements_ |-> this.elements_,
                hash_table_ |-> this.hash_table_,
                size_ |-> this.size_,
                bucket_count_ |-> this.bucket_count_,
                rehash_threshold_ |-> this.rehash_threshold_]]

---------------------------------------------------------------------------
(* List as a ring of nodes, and an iterator held by the caller *)

\* head_: the sentinel BaseNode.
head_ == 0

ListNodes == 0..MaxListNodes

\* List(): the sentinel linked to itself.  The fields of a node that is not
\* allocated (whose memory holds nothing the list may read) are kept at 0.
EmptyList ==
    [next |-> [n \in ListNodes |-> head_],
     prev |-> [n \in ListNodes |-> head_],
     data_ |-> [n \in ListNodes |-> 0],
     live |-> {},
     size_ |-> 0]

\* Iterator(BaseNode* node): is_valid_ is initialised to true.
Iterator(node) == [node_ |-> node, is_valid_ |-> TRUE]

\* begin() and end()
List_begin(l) == Iterator(l.next[head_])

List_end(l) == Iterator(head_)

\* What List::erase(position) does to an iterator object c of the caller:
\* position is taken by value, so position.invalidate() clears the flag of
\* erase's own copy; c keeps its flag, and its node_ dangles when its node
\* is the one destroyed.
ErasedCursor(c, position) ==
    IF c.node_ = position.node_ THEN [c EXCEPT !.node_ = Dangling] ELSE c

\* An erase that returns end() whatever followed the node.
EraseReturnsEnd(l, position) ==
    IF position.node_ = head_ THEN [l |-> l, it |-> List_end(l)]
    ELSE LET node == position.node_
             linked == [l EXCEPT !.next[l.prev[node]] = l.next[node],
                                 !.prev[l.next[node]] = l.prev[node]]
         IN  [l |-> [linked EXCEPT !.next[node] = head_, !.prev[node] = head_,
                                   !.data_[node] = 0,
                                   !.live = l.live \ {node},
                                   !.size_ = l.size_ - 1],
              it |-> List_end(l)]

\* List::erase(iterator position) on a node or on end().
List_erase(l, position) ==
    IF position.node_ = head_ THEN [l |-> l, it |-> List_end(l)]
    ELSE LET node == position.node_
             linked == [l EXCEPT !.next[l.prev[node]] = l.next[node],
                                 !.prev[l.next[node]] = l.prev[node]]
         IN  [l |-> [linked EXCEPT !.next[node] = head_, !.prev[node] = head_,
                                   !.data_[node] = 0,
                                   !.live = l.live \ {node},
                                   !.size_ = l.size_ - 1],
              it |-> Iterator(l.next[node])]

\* An emplace that links the new node after the position's node.
EmplaceAfterPosition(l, position, value, new_node, throws) ==
    LET after == l.next[position.node_]
    IN  IF throws THEN [l |-> l, it |-> List_end(l), threw |-> TRUE]
        ELSE [l |-> [l EXCEPT !.next[new_node] = after,
                              !.prev[new_node] = position.node_,
                              !.prev[after] = new_node,
                              !.next[position.node_] = new_node,
                              !.data_[new_node] = value,
                              !.live = l.live \cup {new_node},
                              !.size_ = l.size_ + 1],
              it |-> Iterator(new_node), threw |-> FALSE]

\* List::emplace(iterator position, value) with the node the allocator
\* returned.  When the construction of the Node throws, the catch block
\* gives the node back and rethrows before any link is written.
List_emplace(l, position, value, new_node, throws) ==
    LET before == l.prev[position.node_]
    IN  IF throws THEN [l |-> l, it |-> List_end(l), threw |-> TRUE]
        ELSE [l |-> [l EXCEPT !.prev[new_node] = before,
                              !.next[new_node] = position.node_,
                              !.next[before] = new_node,
                              !.prev[position.node_] = new_node,
                              !.data_[new_node] = value,
                              !.live = l.live \cup {new_node},
                              !.size_ = l.size_ + 1],
              it |-> Iterator(new_node), threw |-> FALSE]

\* tail_ is set to head_ by every constructor and by both moves.
tail_ == head_

\* A push_back that has linked and counted the node when the construction
\* throws.
PushBackLinksBeforeConstructing(l, value, new_node, throws) ==
    [List_emplace(l, List_end(l), value, new_node, FALSE) EXCEPT !.threw = throws]

\* push_back(value): insert(end(), value)
List_push_back(l, value, new_node, throws) ==
    List_emplace(l, List_end(l), value, new_node, throws)

\* push_front(value): insert(begin(), value)
List_push_front(l, value, new_node, throws) ==
    List_emplace(l, List_begin(l), value, new_node, throws)

\* --end(): the iterator to head_->prev
List_last(l) == Iterator(l.prev[head_])

\* A pop_back that writes the prev link of the sentinel and not the next
\* link of the node before the last one.
PopBackUnlinksBackwardOnly(l) ==
    LET node == l.prev[head_]
    IN  IF node = head_ THEN [l |-> l, it |-> List_end(l)]
        ELSE [l |-> [l EXCEPT !.prev[head_] = l.prev[node],
                              !.live = l.live \ {node},
                              !.size_ = l.size_ - 1],
              it |-> List_end(l)]

\* pop_back(): erase(--end())
List_pop_back(l) == List_erase(l, List_last(l))

\* pop_front(): erase(begin())
List_pop_front(l) == List_erase(l, List_begin(l))

\* clear(): erase(begin()) while !empty(), then the sentinel is linked to
\* itself.
RECURSIVE List_clear(_)
List_clear(l) ==
    IF l.size_ = 0 THEN [l EXCEPT !.next[head_] = head_, !.prev[head_] = head_]
    ELSE List_clear(List_erase(l, List_begin(l)).l)

\* A front that reads the node before the sentinel.
FrontOfLast(l) ==
    IF l.size_ = 0 THEN [threw |-> TRUE, value |-> 0]
    ELSE [threw |-> FALSE, value |-> l.data_[l.prev[head_]]]

\* front(): std::out_of_range when empty(), else head_->next's data_.
List_front(l) ==
    IF l.size_ = 0 THEN [threw |-> TRUE, value |-> 0]
    ELSE [threw |-> FALSE, value |-> l.data_[l.next[head_]]]

\* back(): std::out_of_range when empty(), else tail_->prev's data_.
List_back(l) ==
    IF l.size_ = 0 THEN [threw |-> TRUE, value |-> 0]
    ELSE [threw |-> FALSE, value |-> l.data_[l.prev[tail_]]]

\* A move that gives other a new sentinel and leaves its size_.
MoveKeepsSourceSize(other) ==
    [this |-> other, other |-> [EmptyList EXCEPT !.size_ = other.size_]]

\* List(List&& other): this takes other's sentinel, and with it the ring,
\* and other's size_; other gets a new sentinel linked to itself and
\* size_ 0.
List_move(other) == [this |-> other, other |-> EmptyList]

\* operator=(List&& other) with this != &other: clear() and delete head_
\* destroy every node this held and its sentinel, then as the move
\* constructor.
List_move_assign(this, other) == [this |-> other, other |-> EmptyList]

---------------------------------------------------------------------------
(* DynamicArray: the buffer data_ (slot i of the code is data_[i + 1]; a   *)
(* slot that holds no object is 0), size_ and capacity_                    *)

\* DynamicArray()
EmptyArray == [data_ |-> <<>>, size_ |-> 0, capacity_ |-> 0]

\* A reserve whose larger buffer does not receive the elements.
ReserveWithoutElements(a, new_capacity) ==
    IF new_capacity > a.capacity_
    THEN [a EXCEPT !.data_ = [i \in 1..new_capacity |-> 0],
                   !.capacity_ = new_capacity]
    ELSE a

\* reserve(new_capacity): a larger buffer receives the size_ elements in
\* order; a request that is not larger does nothing.
Array_reserve(a, new_capacity) ==
    IF new_capacity > a.capacity_
    THEN [a EXCEPT !.data_ = [i \in 1..new_capacity |->
                                 IF i <= a.size_ THEN a.data_[i] ELSE 0],
                   !.capacity_ = new_capacity]
    ELSE a

\* A growth by one slot.
GrowByOne(a) ==
    IF a.size_ = a.capacity_ THEN Array_reserve(a, a.capacity_ + 1) ELSE a

\* if (size_ == capacity_) reserve(capacity_ == 0 ? 1 : capacity_ * 2)
Array_grow(a) ==
    IF a.size_ = a.capacity_
    THEN Array_reserve(a, IF a.capacity_ = 0 THEN 1 ELSE a.capacity_ * 2)
    ELSE a

\* push_back(value)
Array_push_back(a, value) ==
    LET g == Array_grow(a)
    IN  [g EXCEPT !.data_[g.size_ + 1] = value, !.size_ = g.size_ + 1]

\* pop_back()
Array_pop_back(a) ==
    IF a.size_ > 0
    THEN [a EXCEPT !.size_ = a.size_ - 1, !.data_[a.size_] = 0]
    ELSE a

\* The loop of insert: for i from size_ down to index + 1, slot i is
\* constructed from slot i - 1 and slot i - 1 is destroyed.
RECURSIVE ShiftRight(_, _, _)
ShiftRight(data, i, index) ==
    IF i > index
    THEN ShiftRight([data EXCEPT ![i + 1] = data[i], ![i] = 0], i - 1, index)
    ELSE data

\* An insert that constructs the value over slot index without the loop.
InsertWithoutShift(a, index, value) ==
    IF index > a.size_ THEN [a |-> a, threw |-> TRUE]
    ELSE LET g == Array_grow(a)
         IN  [a |-> [g EXCEPT !.data_[index + 1] = value, !.size_ = g.size_ + 1],
              threw |-> FALSE]

\* insert(size_t index, value)
Array_insert(a, index, value) ==
    IF index > a.size_ THEN [a |-> a, threw |-> TRUE]
    ELSE LET g == Array_grow(a)
             shifted == ShiftRight(g.data_, g.size_, index)
         IN  [a |-> [g EXCEPT !.data_ = [shifted EXCEPT ![index + 1] = value],
                              !.size_ = g.size_ + 1],
              threw |-> FALSE]

\* The loop of erase_at_index: for i from index to size_ - 2, slot i is
\* constructed from slot i + 1 and slot i + 1 is destroyed.
RECURSIVE ShiftLeft(_, _, _)
ShiftLeft(data, i, size) ==
    IF i < size - 1
    THEN ShiftLeft([data EXCEPT ![i + 1] = data[i + 2], ![i + 2] = 0], i + 1, size)
    ELSE data

\* erase(size_t index): erase_at_index(index)
Array_erase(a, index) ==
    IF index >= a.size_ THEN [a |-> a, threw |-> TRUE]
    ELSE LET destroyed == [a.data_ EXCEPT ![index + 1] = 0]
         IN  [a |-> [a EXCEPT !.data_ = ShiftLeft(destroyed, index, a.size_),
                              !.size_ = a.size_ - 1],
              threw |-> FALSE]

\* clear()
Array_clear(a) ==
    [a EXCEPT !.data_ = [i \in 1..a.capacity_ |-> 0], !.size_ = 0]

\* size_t arithmetic: the values modulo 2^SizeBits.
SizeT(n) == n % (2 ^ SizeBits)

\* The first loop of the range insert, from its variable at i:
\*   for (i = size_ + count - 1; i >= index + count [&& i < size_ + count]; --i)
\*       construct(data_ + i, move(data_[i - count])); destroy(data_ + i - count);
\* The second condition is the one of the iterator overload (guarded).  A
\* slot at or past capacity_ is outside the buffer: writing it is undefined
\* behaviour.
RECURSIVE InsertRangeShift(_, _, _, _, _, _)
InsertRangeShift(a, i, index, count, guarded, fuel) ==
    IF /\ i >= SizeT(index + count)
       /\ guarded => i < SizeT(a.size_ + count)
    THEN IF i >= a.capacity_ \/ fuel = 0
         THEN [data |-> a.data_, ub |-> TRUE]
         ELSE LET constructed == [a.data_ EXCEPT ![i + 1] = a.data_[i - count + 1]]
                  destroyed == [constructed EXCEPT ![i - count + 1] = 0]
              IN  InsertRangeShift([a EXCEPT !.data_ = destroyed], SizeT(i - 1),
                                   index, count, guarded, fuel - 1)
    ELSE [data |-> a.data_, ub |-> FALSE]

\* The body of both range inserts after the index is known: reserve,
\* the shifting loop, the construction of the range at index, size_ += count.
InsertRangeAt(a, index, range, guarded) ==
    LET count == Len(range)
        g == IF a.size_ + count > a.capacity_
             THEN Array_reserve(a, Max(a.capacity_ * 2, a.size_ + count))
             ELSE a
        shifted == InsertRangeShift(g, SizeT(g.size_ + count - 1), index, count,
                                    guarded, 2 ^ SizeBits)
    IN  IF shifted.ub THEN [a |-> g, threw |-> FALSE, ub |-> TRUE]
        ELSE [a |-> [g EXCEPT !.data_ = [i \in 1..g.capacity_ |->
                                   IF i > index /\ i <= index + count
                                   THEN range[i - index] ELSE shifted.data[i]],
                              !.size_ = g.size_ + count],
              threw |-> FALSE, ub |-> FALSE]

\* insert(size_t index, InputIt first, InputIt last)
Array_insert_range(a, index, range) ==
    IF index > a.size_ THEN [a |-> a, threw |-> TRUE, ub |-> FALSE]
    ELSE InsertRangeAt(a, index, range, FALSE)

\* insert(iterator position, InputIt first, InputIt last), position being
\* begin() + index
Array_insert_range_at(a, index, range) == InsertRangeAt(a, index, range, TRUE)

---------------------------------------------------------------------------
(* tryst::StateMachine.  trysts[m].state_ is the atomic word of machine m; *)
(* trysts[m].arrivals is history: the parties in the order of their        *)
(* fetch_or.  callers[<<m, p>>] is the call of party p on machine m: not   *)
(* made yet ("idle"), at its fetch_or ("calling"), or returned with ret.   *)

Machines == 1..MaxMachines

Parties == {"consumer", "producer"}

\* enum States
INIT == 0

CONSUMER == 1

PRODUCER == 2

\* The bitwise or of two unsigned integers.
RECURSIVE BitOr(_, _)
BitOr(x, y) ==
    IF x = 0 THEN y
    ELSE IF y = 0 THEN x
    ELSE Max(x % 2, y % 2) + 2 * BitOr(x \div 2, y \div 2)

TRYST == BitOr(PRODUCER, CONSUMER)

\* state_{States::INIT}
NewStateMachine == [state_ |-> INIT, arrivals |-> <<>>]

NotCalled == [pc |-> "idle", ret |-> FALSE]

\* std::atomic::fetch_or: writes old | value and returns old, in one step.
fetch_or(state, value) == [state_ |-> BitOr(state, value), old |-> state]

\* A consume that takes an untouched state for the meeting.
ConsumeComparesWithInit(state) ==
    [state_ |-> fetch_or(state, CONSUMER).state_,
     ret |-> fetch_or(state, CONSUMER).old = INIT]

\* consume(): state_.fetch_or(CONSUMER) == PRODUCER
consume(state) ==
    [state_ |-> fetch_or(state, CONSUMER).state_,
     ret |-> fetch_or(state, CONSUMER).old = PRODUCER]

\* produce(): state_.fetch_or(PRODUCER) == CONSUMER
produce(state) ==
    [state_ |-> fetch_or(state, PRODUCER).state_,
     ret |-> fetch_or(state, PRODUCER).old = CONSUMER]

---------------------------------------------------------------------------
(* sync::WaitGroup.  wg is the object: count_, the thread holding mtx_,    *)
(* the threads blocked in all_done_.wait, and whether assert(count_ > 0)   *)
(* has failed.  threads[t] is thread t: its position pc, the argument of   *)
(* its add, and (history) whether its wait has blocked.  Thread Main calls *)
(* add(n) and then starts n of the workers, each of which calls done()     *)
(* once; the waiters call wait() once, at any time.                        *)

Main == 0

Workers == 1..MaxWorkers

Waiters == (MaxWorkers + 1)..(MaxWorkers + MaxWaiters)

Threads == {Main} \cup Workers \cup Waiters

\* mtx_ held by no thread
Unlocked == -1

\* count_{0}, mtx_ and all_done_ default-constructed
NewWaitGroup == [count_ |-> 0, mtx_ |-> Unlocked, sleeping |-> {}, failed |-> FALSE]

NotStarted == [pc |-> "idle", arg |-> 0, slept |-> FALSE]

\* add(count), under the lock: count_ += count
WaitGroup_add(w, count) == [w EXCEPT !.count_ = SizeT(w.count_ + count)]

\* A done that never notifies.
DoneWithoutNotify(w, ndebug) ==
    IF w.count_ = 0 /\ ~ndebug THEN [w EXCEPT !.failed = TRUE]
    ELSE [w EXCEPT !.count_ = SizeT(w.count_ - 1)]

\* done(), under the lock: assert(count_ > 0); --count_; notify_all() when
\* count_ == 0, which takes every thread out of all_done_.wait.  With
\* NDEBUG the assert is no code.
WaitGroup_done(w, ndebug) ==
    IF w.count_ = 0 /\ ~ndebug THEN [w EXCEPT !.failed = TRUE]
    ELSE [w EXCEPT !.count_ = SizeT(w.count_ - 1),
                   !.sleeping = IF SizeT(w.count_ - 1) = 0 THEN {} ELSE @]

\* The predicate of wait(): count_ == 0
WaitGroup_wait_predicate(w) == w.count_ = 0

---------------------------------------------------------------------------
(* The state machine *)

\* The last operation: its name, its table, its argument (a key, a cursor or
\* a count), the value an emplace stored, the cursor an emplace returned,
\* and how it ended.
NoOp ==
    [op |-> "init", tid |-> "a", arg |-> 0, val |-> "one", it |-> End, res |-> "none"]

Init ==
    /\ tables = [id \in TableIds |-> EmptyTable]
    /\ last = NoOp
    /\ ub = FALSE
    /\ list = EmptyList
    /\ cursor = List_end(EmptyList)
    /\ moved_list = EmptyList
    /\ array = EmptyArray
    /\ trysts = [m \in Machines |-> NewStateMachine]
    /\ callers = [c \in Machines \X Parties |-> NotCalled]
    /\ wg = NewWaitGroup
    /\ threads = [t \in Threads |-> NotStarted]

Outcome(r) ==
    IF r.ub THEN "ub"
    ELSE IF r.threw THEN "threw"
    ELSE IF r.inserted
         THEN (IF r.swallowed THEN "inserted_unrehashed"
               ELSE IF r.grew THEN "inserted_grown" ELSE "inserted")
    ELSE "done"

\* Record an operation on table id with result r.  The argument and the
\* value are recorded for the operations that complete.
Apply(id, r, op, arg, v) ==
    /\ tables' = IF r.ub THEN tables ELSE [tables EXCEPT ![id] = r.t]
    /\ ub' = r.ub
    /\ last' = IF r.ub \/ r.threw
               THEN [op |-> op, tid |-> id, arg |-> 0, val |-> "one", it |-> End,
                     res |-> Outcome(r)]
               ELSE [op |-> op, tid |-> id, arg |-> arg, val |-> v, it |-> r.it,
                     res |-> Outcome(r)]
    /\ UNCHANGED <<list, cursor, moved_list, array, trysts, callers, wg, threads>>

\* emplace is not attempted on a table that holds cap nodes or whose size_
\* has reached cap.
Emplace(id, pairs, cap) ==
    /\ ~ub
    /\ Len(tables[id].elements_) < cap
    /\ tables[id].size_ < cap
    /\ \E kv \in pairs, fault \in Faults :
          LET r == emplace(tables[id], kv[1], kv[2], fault = "table", fault = "node")
          IN  Apply(id, r, "emplace", kv[1], IF r.inserted THEN kv[2] ELSE "one")

Subscript(id, keys, cap) ==
    /\ ~ub
    /\ Len(tables[id].elements_) < cap
    /\ tables[id].size_ < cap
    /\ \E k \in keys, fault \in Faults :
          Apply(id, subscript(tables[id], k, fault = "table", fault = "node"),
                "subscript", k, "")

\* An erase that would decrement a size_ of 0 (a size_t, which would wrap
\* around) is not attempted.
EraseKey(id, keys) ==
    /\ ~ub
    /\ \E k \in keys :
          /\ tables[id].size_ > 0 \/ find(tables[id], k) <= 0
          /\ Apply(id, erase_key(tables[id], k), "erase_key", k, "one")

\* erase(position) with a cursor the caller got from begin()/++ or find:
\* any node of the list, or end().
EraseAt(id) ==
    /\ ~ub
    /\ \E c \in 0..Len(tables[id].elements_) :
          /\ tables[id].size_ > 0 \/ c = End
          /\ Apply(id, erase(tables[id], c), "erase", c, "one")

Rehash(id, args) ==
    /\ ~ub
    /\ \E n \in args, allocFails \in BOOLEAN :
          LET r == rehash(tables[id], n, allocFails)
          IN  Apply(id, Result(r.t, FALSE, r.threw, End, FALSE), "rehash", n, "one")

Reserve(id, args) ==
    /\ ~ub
    /\ \E n \in args :
          LET r == reserve(tables[id], n, FALSE)
          IN  Apply(id, Result(r.t, FALSE, r.threw, End, FALSE), "reserve", n, "one")

\* clear(); the number of nodes it destroyed is recorded as its argument.
Clear(id) ==
    /\ ~ub
    /\ Apply(id, Result(clear(tables[id]), FALSE, FALSE, End, FALSE), "clear",
             Len(tables[id].elements_), "one")

\* t[k] = v
SubscriptAssign(id, pairs, cap) ==
    /\ ~ub
    /\ Len(tables[id].elements_) < cap
    /\ tables[id].size_ < cap
    /\ \E kv \in pairs, fault \in Faults :
          Apply(id, subscript_assign(tables[id], kv[1], kv[2], fault = "table", fault = "node"),
                "subscript_assign", kv[1], kv[2])

\* at(k) or operator[](k) const: the key and the value read are recorded.
At(id, keys) ==
    /\ ~ub
    /\ \E k \in keys :
          LET r == at(tables[id], k)
          IN  /\ tables' = tables
              /\ ub' = r.ub
              /\ last' = [op |-> "at", tid |-> id,
                          arg |-> IF r.ub THEN 0 ELSE k,
                          val |-> IF r.it > 0 THEN tables[id].elements_[r.it].value ELSE "one",
                          it |-> r.it, res |-> Outcome(r)]
              /\ UNCHANGED <<list, cursor, moved_list, array, trysts, callers, wg, threads>>

\* erase(first, second) with cursors the caller got from begin()/++/find/
\* end(), first not behind second in list order.  The cursor second is
\* recorded as the caller passed it.
EraseRange(id) ==
    /\ ~ub
    /\ \E first \in 0..Len(tables[id].elements_) :
          \E s \in first..(Len(tables[id].elements_) + 1) :
             LET second == IF s > Len(tables[id].elements_) THEN End ELSE s
             IN  /\ first = End => second = End
                 /\ first # End => tables[id].size_ >= s - first
                 /\ Apply(id, [erase_range(tables[id], first, second) EXCEPT !.it = second],
                          "erase_range", first, "one")

\* The predicates offered to erase_if: every element, or the elements of
\* key 7.
Preds == {"all", "key7"}

\* erase_if(pred).  Its loop assigns the result of erase(iterator), which
\* returns void, to the cursor (it = erase(it)): no instantiation of the
\* template is well-formed, so a call neither erases nor returns a count.
EraseIf(id, preds) ==
    /\ ~ub
    /\ \E pred \in preds :
          /\ tables' = tables
          /\ ub' = FALSE
          /\ last' = [op |-> "erase_if", tid |-> id, arg |-> 0, val |-> pred,
                      it |-> End, res |-> "ill_formed"]
          /\ UNCHANGED <<list, cursor, moved_list, array, trysts, callers, wg, threads>>

\* One table of colliding keys under emplace, operator[] (on key 7), at, the erases,
\* rehash and clear.
Next ==
    \/ Emplace("a", PairsOf(Keys, 7), MaxNodes)
    \/ Subscript("a", {7}, MaxNodes)
    \/ SubscriptAssign("a", {<<7, "two">>}, MaxNodes)
    \/ At("a", Keys)
    \/ EraseKey("a", Keys)
    \/ EraseAt("a")
    \/ EraseRange("a")
    \/ EraseIf("a", Preds)
    \/ Rehash("a", RehashArgs)
    \/ Clear("a")

Spec == Init /\ [][Next]_vars

HasKey(t, k) == \E c \in 1..Len(t.elements_) : t.elements_[c].key = k

InOrder(t, k) == k \in Fillers => \A j \in Fillers : j < k => HasKey(t, j)

\* One table filled far enough to grow: six distinct keys are offered, key 3
\* through operator[], and only key 7 is ever erased.
NextGrow ==
    \/ Emplace("a", {kv \in PairsOf(KeysGrow, 7) : InOrder(tables["a"], kv[1])},
               MaxGrowNodes)
    \/ Subscript("a", {k \in KeysSubscript : InOrder(tables["a"], k)}, MaxGrowNodes)
    \/ EraseKey("a", {7})
    \/ Rehash("a", RehashArgs)
    \/ Reserve("a", ReserveArgs)
    \/ Clear("a")

SpecGrow == Init /\ [][NextGrow]_vars

\* A default-constructed table under emplace(k, v) and erase(k) alone.
NextEE ==
    \/ Emplace("a", PairsOf(KeysEE, 7), MaxGrowNodes)
    \/ EraseKey("a", KeysEE)

SpecEE == Init /\ [][NextEE]_vars

Other(id) == IF id = "a" THEN "b" ELSE "a"

\* Record an operation of table id that also changed the other table.
ApplyBoth(id, this, other, op) ==
    /\ tables' = [tables EXCEPT ![id] = this, ![Other(id)] = other]
    /\ ub' = FALSE
    /\ last' = [op |-> op, tid |-> id, arg |-> 0, val |-> "one", it |-> End, res |-> "done"]
    /\ UNCHANGED <<list, cursor, moved_list, array, trysts, callers, wg, threads>>

\* HashTable id(other): the table named id is constructed as a copy.
CopyConstruct(id) ==
    /\ ~ub
    /\ ApplyBoth(id, CopyOf(tables[Other(id)]), tables[Other(id)], "copy_construct")

\* id = other: a copy of other is built and swapped into id.
CopyAssign(id) ==
    /\ ~ub
    /\ ApplyBoth(id, CopyOf(tables[Other(id)]), tables[Other(id)], "copy_assign")

\* HashTable id(std::move(other))
MoveConstruct(id) ==
    /\ ~ub
    /\ LET r == MoveConstructed(tables[Other(id)])
       IN  ApplyBoth(id, r.this, r.other, "move_construct")

\* id = std::move(other)
MoveAssign(id) ==
    /\ ~ub
    /\ LET r == MoveAssigned(tables[id], tables[Other(id)])
       IN  ApplyBoth(id, r.this, r.other, "move_assign")

\* id.swap(other)
Swap(id) ==
    /\ ~ub
    /\ LET r == swap(tables[id], tables[Other(id)])
       IN  ApplyBoth(id, r.this, r.other, "swap")

\* The bucket counts a table is constructed with: below, at and above
\* MIN_BUCKET_COUNT.
ConstructArgs == {3, 7, 16}

\* HashTable<int, std::string> id(n)
Construct(id, args) ==
    /\ ~ub
    /\ \E n \in args :
          Apply(id, Result(Constructed(n), FALSE, FALSE, End, FALSE), "construct", n,
                "one")

\* Two tables: "a" is filled, erased from and rehashed, "b" only ever gets
\* key 1 inserted, and both are copied, moved and swapped into each other.
NextPair ==
    \/ Emplace("a", {<<k, "one">> : k \in KeysPair}, MaxPairNodes)
    \/ EraseKey("a", {17})
    \/ Rehash("a", {17})
    \/ Emplace("b", {<<1, "two">>}, MaxPairNodes)
    \/ \E id \in TableIds : CopyConstruct(id)
    \/ \E id \in TableIds : CopyAssign(id)
    \/ \E id \in TableIds : MoveConstruct(id)
    \/ \E id \in TableIds : MoveAssign(id)
    \/ \E id \in TableIds : Swap(id)

SpecPair == Init /\ [][NextPair]_vars

\* Two tables: "a" is constructed with a bucket count, filled and erased
\* from, "b" is filled, and each is moved into the other.
NextCtor ==
    \/ Construct("a", ConstructArgs)
    \/ Emplace("a", {<<k, "one">> : k \in KeysLife}, MaxLifeNodes)
    \/ Emplace("b", {<<1, "two">>}, MaxLifeNodes)
    \/ EraseKey("a", {7})
    \/ \E id \in TableIds : MoveConstruct(id)
    \/ \E id \in TableIds : MoveAssign(id)

SpecCtor == Init /\ [][NextCtor]_vars

\* The keys SpecFail offers to emplace: those with every smaller key in the
\* table, i.e. the keys in the table and the smallest one that is not.
Offered(t) == {k \in KeysFail : \A j \in KeysFail : j < k => HasKey(t, j)}

\* One table filled beyond its bucket count under allocation failures: the
\* keys are inserted in increasing order, keys 0 and 3 are erased and
\* inserted again.
NextFail ==
    \/ Emplace("a", {<<k, "one">> : k \in Offered(tables["a"])}, MaxFailNodes)
    \/ EraseKey("a", {0, 3})
    \/ Clear("a")

SpecFail == Init /\ [][NextFail]_vars

\* Two tables through their whole life: "a" is filled with colliding keys,
\* rehashed and reserved, "b" gets key 1, and both are cleared, swapped and
\* moved into each other.
NextLife ==
    \/ Emplace("a", {<<k, "one">> : k \in KeysLife}, MaxLifeNodes)
    \/ Emplace("b", {<<1, "two">>}, MaxLifeNodes)
    \/ EraseKey("a", {7})
    \/ Rehash("a", {17})
    \/ Reserve("a", ReserveArgs)
    \/ \E id \in TableIds : Clear(id)
    \/ \E id \in TableIds : Swap(id)
    \/ \E id \in TableIds : MoveConstruct(id)
    \/ \E id \in TableIds : MoveAssign(id)

SpecLife == Init /\ [][NextLife]_vars

\* Record an operation on the list or on the caller's iterator.
ListOp(op, arg, res) ==
    /\ last' = [op |-> op, tid |-> "list", arg |-> arg, val |-> "one", it |-> End,
                res |-> res]
    /\ ub' = (res = "ub")
    /\ UNCHANGED <<tables, moved_list, array, trysts, callers, wg, threads>>

\* Record an operation on the list: the position it was given (or the node
\* it removed), the value, the node of the iterator it returned, and how it
\* ended.
ListStep(op, arg, value, it, res) ==
    /\ last' = [op |-> op, tid |-> "list", arg |-> arg, val |-> value, it |-> it,
                res |-> res]
    /\ ub' = (res = "ub")
    /\ UNCHANGED <<tables, array, trysts, callers, wg, threads>>

\* The nodes the allocator can return.
FreeNodes(l) == (1..MaxListNodes) \ l.live

\* list.push_back(value); the construction of the element may throw.
ListPushBack ==
    /\ ~ub
    /\ \E value \in ListValues, new_node \in FreeNodes(list), throws \in BOOLEAN :
          LET r == List_push_back(list, value, new_node, throws)
          IN  /\ list' = r.l
              /\ cursor' = cursor
              /\ moved_list' = moved_list
              /\ ListStep("push_back", head_, value, r.it.node_,
                          IF r.threw THEN "threw" ELSE "done")

\* c = list.begin(), c = list.end()
CursorBegin ==
    /\ ~ub
    /\ \E c \in {List_begin(list), List_end(list)} :
          /\ cursor' = c
          /\ list' = list
          /\ ListOp("begin", c.node_, "done")

\* c.invalidate()
CursorInvalidate ==
    /\ ~ub
    /\ cursor' = [cursor EXCEPT !.is_valid_ = FALSE]
    /\ list' = list
    /\ ListOp("invalidate", 0, "done")

\* ++c: operator++ throws std::runtime_error when is_valid_ is false and
\* follows node_->next otherwise; on a destroyed node that is a read of
\* freed memory.
CursorIncrement ==
    /\ ~ub
    /\ list' = list
    /\ IF ~cursor.is_valid_
       THEN cursor' = cursor /\ ListOp("increment", 0, "threw")
       ELSE IF cursor.node_ < 0
       THEN cursor' = cursor /\ ListOp("increment", 0, "ub")
       ELSE /\ cursor' = [cursor EXCEPT !.node_ = list.next[cursor.node_]]
            /\ ListOp("increment", list.next[cursor.node_], "done")

\* *c: operator* throws std::runtime_error when is_valid_ is false and
\* reads static_cast<Node*>(node_)->data_ otherwise; on the sentinel and on
\* a destroyed node that read is undefined.
CursorDereference ==
    /\ ~ub
    /\ list' = list
    /\ cursor' = cursor
    /\ IF ~cursor.is_valid_ THEN ListOp("dereference", 0, "threw")
       ELSE IF cursor.node_ < 0 \/ cursor.node_ = head_ THEN ListOp("dereference", 0, "ub")
       ELSE ListOp("dereference", list.data_[cursor.node_], "done")

\* list.erase(c) with the caller's iterator c, which the caller keeps.
ListEraseAtCursor ==
    /\ ~ub
    /\ IF cursor.node_ < 0
       THEN /\ list' = list /\ cursor' = cursor
            /\ ListOp("list_erase", 0, "ub")
       ELSE /\ list' = List_erase(list, cursor).l
            /\ cursor' = IF cursor.node_ = head_ THEN cursor
                         ELSE ErasedCursor(cursor, cursor)
            /\ ListOp("list_erase", cursor.node_, "done")

\* A List<int> and one iterator of its caller.
NextList ==
    \/ ListPushBack
    \/ CursorBegin
    \/ CursorInvalidate
    \/ CursorIncrement
    \/ CursorDereference
    \/ ListEraseAtCursor

SpecList == Init /\ [][NextList]_vars

\* The iterators a caller can obtain from the list: to a node and end().
Positions(l) == {Iterator(n) : n \in l.live \cup {head_}}

\* What List::emplace(position, ...) does to an iterator object c of the
\* caller: position is taken by value, so position.invalidate() clears the
\* flag of emplace's own copy and c is as it was.
EmplaceInvalidatesArgument(c, position) ==
    IF c.node_ = position.node_ THEN [c EXCEPT !.is_valid_ = FALSE] ELSE c

EmplacedCursor(c, position) == c

\* list.emplace(position, value) and list.insert(position, value)
ListEmplaceAt ==
    /\ ~ub
    /\ \E position \in Positions(list), value \in ListValues,
          new_node \in FreeNodes(list), throws \in BOOLEAN :
          LET r == List_emplace(list, position, value, new_node, throws)
          IN  /\ list' = r.l
              /\ cursor' = EmplacedCursor(cursor, position)
              /\ moved_list' = moved_list
              /\ ListStep("emplace", position.node_, value, r.it.node_,
                          IF r.threw THEN "threw" ELSE "done")

\* list.push_front(value)
ListPushFront ==
    /\ ~ub
    /\ \E value \in ListValues, new_node \in FreeNodes(list), throws \in BOOLEAN :
          LET r == List_push_front(list, value, new_node, throws)
          IN  /\ list' = r.l
              /\ cursor' = EmplacedCursor(cursor, List_begin(list))
              /\ moved_list' = moved_list
              /\ ListStep("push_front", list.next[head_], value, r.it.node_,
                          IF r.threw THEN "threw" ELSE "done")

\* The caller's iterator after erase(position) on the list.
AfterListErase(c, position) ==
    IF position.node_ = head_ THEN c ELSE ErasedCursor(c, position)

\* list.erase(position)
ListEraseAt ==
    /\ ~ub
    /\ \E position \in Positions(list) :
          LET r == List_erase(list, position)
          IN  /\ list' = r.l
              /\ cursor' = AfterListErase(cursor, position)
              /\ moved_list' = moved_list
              /\ ListStep("erase", position.node_, 0, r.it.node_, "done")

\* list.pop_back()
ListPopBack ==
    /\ ~ub
    /\ list' = List_pop_back(list).l
    /\ cursor' = AfterListErase(cursor, List_last(list))
    /\ moved_list' = moved_list
    /\ ListStep("pop_back", list.prev[head_], 0, List_pop_back(list).it.node_, "done")

\* list.pop_front()
ListPopFront ==
    /\ ~ub
    /\ list' = List_pop_front(list).l
    /\ cursor' = AfterListErase(cursor, List_begin(list))
    /\ moved_list' = moved_list
    /\ ListStep("pop_front", list.next[head_], 0, List_pop_front(list).it.node_, "done")

\* list.clear(): an iterator of the caller to a node dangles.
ListClear ==
    /\ ~ub
    /\ list' = List_clear(list)
    /\ cursor' = IF cursor.node_ \in list.live
                 THEN [cursor EXCEPT !.node_ = Dangling] ELSE cursor
    /\ moved_list' = moved_list
    /\ ListStep("clear", list.size_, 0, head_, "done")

\* list.front()
ListFront ==
    /\ ~ub
    /\ UNCHANGED <<list, cursor, moved_list>>
    /\ LET r == List_front(list)
       IN  ListStep("front", 0, r.value, head_, IF r.threw THEN "threw" ELSE "done")

\* list.back()
ListBack ==
    /\ ~ub
    /\ UNCHANGED <<list, cursor, moved_list>>
    /\ LET r == List_back(list)
       IN  ListStep("back", 0, r.value, head_, IF r.threw THEN "threw" ELSE "done")

\* A List<int> under all of its operations, and one iterator of its caller.
NextRing ==
    \/ ListPushBack
    \/ ListPushFront
    \/ ListEmplaceAt
    \/ ListEraseAt
    \/ ListPopBack
    \/ ListPopFront
    \/ ListClear
    \/ ListFront
    \/ ListBack
    \/ CursorBegin
    \/ CursorIncrement
    \/ CursorDereference

SpecRing == Init /\ [][NextRing]_vars

\* List<int> moved_list(std::move(list))
ListMoveConstruct ==
    /\ ~ub
    /\ LET r == List_move(list)
       IN  /\ moved_list' = r.this
           /\ list' = r.other
    /\ cursor' = cursor
    /\ ListStep("move_construct", list.size_, 0, head_, "done")

\* moved_list = std::move(list)
ListMoveAssign ==
    /\ ~ub
    /\ LET r == List_move_assign(moved_list, list)
       IN  /\ moved_list' = r.this
           /\ list' = r.other
    /\ cursor' = cursor
    /\ ListStep("move_assign", list.size_, 0, head_, "done")

\* list = std::move(moved_list)
ListMoveAssignBack ==
    /\ ~ub
    /\ LET r == List_move_assign(list, moved_list)
       IN  /\ list' = r.this
           /\ moved_list' = r.other
    /\ cursor' = cursor
    /\ ListStep("move_assign_back", moved_list.size_, 0, head_, "done")

\* Two List<int> objects, one moved into the other; the caller holds no
\* iterator across a move.
NextMove ==
    \/ list.size_ + moved_list.size_ < MaxMoveNodes /\ ListPushBack
    \/ list.size_ + moved_list.size_ < MaxMoveNodes /\ ListPushFront
    \/ ListPopBack
    \/ ListClear
    \/ ListMoveConstruct
    \/ ListMoveAssign
    \/ ListMoveAssignBack

SpecMove == Init /\ [][NextMove]_vars

\* Record an operation on the array: its index or capacity argument, the
\* value, and how it ended.  For push_back, it is the number of push_backs
\* in a row since the array was empty and arg the capacity_ it had then (0
\* when another operation came between).
ArrayStep(op, arg, value, it, res) ==
    /\ last' = [op |-> op, tid |-> "array", arg |-> arg, val |-> value, it |-> it,
                res |-> res]
    /\ ub' = FALSE
    /\ UNCHANGED <<tables, list, cursor, moved_list, trysts, callers, wg, threads>>

\* array.push_back(value)
ArrayPushBack ==
    /\ ~ub
    /\ Array_grow(array).capacity_ <= MaxCapacity
    /\ \E value \in ArrayValues :
          /\ array' = Array_push_back(array, value)
          /\ IF array.size_ = 0
             THEN ArrayStep("push_back", array.capacity_, value, 1, "done")
             ELSE IF last.tid = "array" /\ last.op = "push_back" /\ last.it > 0
             THEN ArrayStep("push_back", last.arg, value, last.it + 1, "done")
             ELSE ArrayStep("push_back", 0, value, 0, "done")

\* array.pop_back()
ArrayPopBack ==
    /\ ~ub
    /\ array' = Array_pop_back(array)
    /\ ArrayStep("pop_back", 0, 0, 0, "done")

\* array.reserve(new_capacity)
ArrayReserve ==
    /\ ~ub
    /\ \E new_capacity \in 0..MaxCapacity :
          /\ array' = Array_reserve(array, new_capacity)
          /\ ArrayStep("reserve", new_capacity, 0, 0, "done")

\* array.insert(index, value), with the indices up to one past size_
ArrayInsert ==
    /\ ~ub
    /\ Array_grow(array).capacity_ <= MaxCapacity
    /\ \E index \in 0..(array.size_ + 1), value \in ArrayValues :
          LET r == Array_insert(array, index, value)
          IN  /\ array' = r.a
              /\ ArrayStep("insert", index, value, 0,
                           IF r.threw THEN "threw" ELSE "done")

\* array.erase(index), with the indices up to size_
ArrayErase ==
    /\ ~ub
    /\ \E index \in 0..array.size_ :
          LET r == Array_erase(array, index)
          IN  /\ array' = r.a
              /\ ArrayStep("erase", index, 0, 0, IF r.threw THEN "threw" ELSE "done")

\* array.clear()
ArrayClear ==
    /\ ~ub
    /\ array' = Array_clear(array)
    /\ ArrayStep("clear", 0, 0, 0, "done")

\* The capacity_ after the reserve of a range insert of count elements.
RangeCapacity(a, count) ==
    IF a.size_ + count > a.capacity_
    THEN Max(a.capacity_ * 2, a.size_ + count) ELSE a.capacity_

\* A step of a range insert: the range is recorded as the step's value.
RangeStep(op, index, range, r) ==
    /\ array' = r.a
    /\ ub' = r.ub
    /\ last' = [op |-> op, tid |-> "array", arg |-> index, val |-> range, it |-> 0,
                res |-> IF r.ub THEN "ub" ELSE IF r.threw THEN "threw" ELSE "done"]
    /\ UNCHANGED <<tables, list, cursor, moved_list, trysts, callers, wg, threads>>

\* array.insert(index, first, last), with the indices up to one past size_
ArrayInsertRange ==
    /\ ~ub
    /\ \E index \in 0..(array.size_ + 1), range \in Ranges :
          /\ RangeCapacity(array, Len(range)) <= MaxRangeCapacity
          /\ RangeStep("insert_range", index, range,
                       Array_insert_range(array, index, range))

\* array.insert(array.begin() + index, first, last), with the positions of
\* [begin(), end()]
ArrayInsertRangeAt ==
    /\ ~ub
    /\ \E index \in 0..array.size_, range \in Ranges :
          /\ RangeCapacity(array, Len(range)) <= MaxRangeCapacity
          /\ RangeStep("insert_range_at", index, range,
                       Array_insert_range_at(array, index, range))

\* A DynamicArray<int> with the range inserts.
NextRange ==
    \/ ArrayPopBack
    \/ ArrayInsertRange
    \/ ArrayInsertRangeAt
    \/ ArrayClear

SpecRange == Init /\ [][NextRange]_vars

\* Party p starts its one call on machine m.
TrystCall(m, p) ==
    /\ callers[<<m, p>>].pc = "idle"
    /\ callers' = [callers EXCEPT ![<<m, p>>].pc = "calling"]
    /\ UNCHANGED <<tables, last, ub, list, cursor, moved_list, array, trysts, wg,
                   threads>>

\* The fetch_or of party p's call on machine m, and the return of the call.
TrystFetchOr(m, p) ==
    /\ callers[<<m, p>>].pc = "calling"
    /\ LET r == IF p = "consumer" THEN consume(trysts[m].state_)
                ELSE produce(trysts[m].state_)
       IN  /\ trysts' = [trysts EXCEPT ![m].state_ = r.state_,
                                       ![m].arrivals = Append(@, p)]
           /\ callers' = [callers EXCEPT ![<<m, p>>] = [pc |-> "returned",
                                                         ret |-> r.ret]]
    /\ UNCHANGED <<tables, last, ub, list, cursor, moved_list, array, wg, threads>>

TrystInvoke == \E m \in Machines, p \in Parties : TrystCall(m, p)

TrystReturn == \E m \in Machines, p \in Parties : TrystFetchOr(m, p)

\* Consumers and producers of MaxMachines state machines, one call each.
NextTryst ==
    \/ TrystInvoke
    \/ TrystReturn

SpecTryst == Init /\ [][NextTryst]_vars

\* A step of the WaitGroup and its threads.
WgStep ==
    UNCHANGED <<tables, last, ub, list, cursor, moved_list, array, trysts, callers>>

\* The workers not started yet, and the first n of them.
IdleWorkers == {t \in Workers : threads[t].pc = "idle"}

FirstIdle(n) == {t \in IdleWorkers : Cardinality({u \in IdleWorkers : u < t}) < n}

\* Main calls add(n), for as many workers as are left.
WgAddCall ==
    /\ ~wg.failed
    /\ threads[Main].pc = "idle"
    /\ \E n \in 1..Cardinality(IdleWorkers) :
          threads' = [threads EXCEPT ![Main].pc = "lock", ![Main].arg = n]
    /\ UNCHANGED wg
    /\ WgStep

\* std::unique_lock<std::mutex> lock(mtx_), also the lock taken again by a
\* thread that left all_done_.wait
WgLock(t) ==
    /\ ~wg.failed
    /\ threads[t].pc = "lock"
    /\ wg.mtx_ = Unlocked
    /\ wg' = [wg EXCEPT !.mtx_ = t]
    /\ threads' = [threads EXCEPT ![t].pc = "locked"]
    /\ WgStep

\* The rest of add(n): count_ += n and the unlock; Main then starts the n
\* workers that will call done().
WgAddBody ==
    /\ ~wg.failed
    /\ threads[Main].pc = "locked"
    /\ wg' = [WaitGroup_add(wg, threads[Main].arg) EXCEPT !.mtx_ = Unlocked]
    /\ threads' = [t \in Threads |->
                      IF t = Main THEN [threads[t] EXCEPT !.pc = "idle"]
                      ELSE IF t \in FirstIdle(threads[Main].arg)
                      THEN [threads[t] EXCEPT !.pc = "ready"]
                      ELSE threads[t]]
    /\ WgStep

\* A started worker calls done().
WgDoneCall(t) ==
    /\ ~wg.failed
    /\ t \in Workers
    /\ threads[t].pc = "ready"
    /\ threads' = [threads EXCEPT ![t].pc = "lock"]
    /\ UNCHANGED wg
    /\ WgStep

\* The rest of done(): the assert, --count_, the notify_all and the unlock.
\* The notified threads leave all_done_.wait and go for the lock.
WgDoneBody(t) ==
    /\ ~wg.failed
    /\ t \in Workers
    /\ threads[t].pc = "locked"
    /\ \E ndebug \in BOOLEAN :
          LET w == WaitGroup_done(wg, ndebug)
          IN  /\ wg' = [w EXCEPT !.mtx_ = Unlocked]
              /\ threads' = [u \in Threads |->
                                IF u = t THEN [threads[u] EXCEPT !.pc = "returned"]
                                ELSE IF u \in wg.sleeping \ w.sleeping
                                THEN [threads[u] EXCEPT !.pc = "lock"]
                                ELSE threads[u]]
    /\ WgStep

\* A waiter calls wait().
WgWaitCall(t) ==
    /\ ~wg.failed
    /\ t \in Waiters
    /\ threads[t].pc = "idle"
    /\ threads' = [threads EXCEPT ![t].pc = "lock"]
    /\ UNCHANGED wg
    /\ WgStep

\* all_done_.wait(lock, predicate) with the lock held: when the predicate
\* holds, wait() returns and unlocks; otherwise the thread unlocks and
\* blocks in one step.
WgWaitCheck(t) ==
    /\ ~wg.failed
    /\ t \in Waiters
    /\ threads[t].pc = "locked"
    /\ IF WaitGroup_wait_predicate(wg)
       THEN /\ wg' = [wg EXCEPT !.mtx_ = Unlocked]
            /\ threads' = [threads EXCEPT ![t].pc = "returned"]
       ELSE /\ wg' = [wg EXCEPT !.mtx_ = Unlocked, !.sleeping = @ \cup {t}]
            /\ threads' = [threads EXCEPT ![t].pc = "sleeping", ![t].slept = TRUE]
    /\ WgStep

\* A spurious wake-up of a thread blocked in all_done_.wait.
WgSpuriousWake(t) ==
    /\ ~wg.failed
    /\ t \in wg.sleeping
    /\ wg' = [wg EXCEPT !.sleeping = @ \ {t}]
    /\ threads' = [threads EXCEPT ![t].pc = "lock"]
    /\ WgStep

WgAcquire == \E t \in Threads : WgLock(t)

WgDoneStart == \E t \in Workers : WgDoneCall(t)

WgDoneFinish == \E t \in Workers : WgDoneBody(t)

WgWaitStart == \E t \in Waiters : WgWaitCall(t)

WgWaitStep == \E t \in Waiters : WgWaitCheck(t)

WgSpurious == \E t \in Waiters : WgSpuriousWake(t)

\* One WaitGroup, Main adding, MaxWorkers workers and MaxWaiters waiters.
NextWaitGroup ==
    \/ WgAddCall
    \/ WgAcquire
    \/ WgAddBody
    \/ WgDoneStart
    \/ WgDoneFinish
    \/ WgWaitStart
    \/ WgWaitStep
    \/ WgSpurious

SpecWaitGroup == Init /\ [][NextWaitGroup]_vars

\* Fair scheduling: a thread that has the lock goes on; a started worker
\* calls done(); a thread going for the lock gets it if the lock is free
\* again and again.  Nothing makes Main add, a waiter call wait(), or a
\* wake-up be spurious.
FairWaitGroup ==
    /\ SpecWaitGroup
    /\ WF_vars(WgAddBody)
    /\ \A t \in Threads : SF_vars(WgLock(t))
    /\ \A t \in Workers : WF_vars(WgDoneCall(t)) /\ WF_vars(WgDoneBody(t))
    /\ \A t \in Waiters : WF_vars(WgWaitCheck(t))

\* The state before a call of is_prime or next_prime with argument n.
InitPrime ==
    /\ tables = [id \in TableIds |-> EmptyTable]
    /\ \E n \in 0..MaxPrimeInput :
          last = [op |-> "argument", tid |-> "prime", arg |-> n, val |-> 0,
                  it |-> 0, res |-> "none"]
    /\ ub = FALSE
    /\ list = EmptyList
    /\ cursor = List_end(EmptyList)
    /\ moved_list = EmptyList
    /\ array = EmptyArray
    /\ trysts = [m \in Machines |-> NewStateMachine]
    /\ callers = [c \in Machines \X Parties |-> NotCalled]
    /\ wg = NewWaitGroup
    /\ threads = [t \in Threads |-> NotStarted]

\* A call on the argument: its result is recorded.
PrimeStep(op, value, res) ==
    /\ last' = [last EXCEPT !.op = op, !.val = value, !.res = res]
    /\ UNCHANGED <<tables, ub, list, cursor, moved_list, array, trysts, callers, wg,
                   threads>>

\* is_prime(n)
CallIsPrime ==
    PrimeStep("is_prime", 0, IF is_prime(last.arg) THEN "true" ELSE "false")

\* next_prime(n)
CallNextPrime == PrimeStep("next_prime", next_prime(last.arg), "done")

\* is_prime and next_prime on the arguments 0..MaxPrimeInput.
NextPrime ==
    \/ CallIsPrime
    \/ CallNextPrime

SpecPrime == InitPrime /\ [][NextPrime]_vars

\* A DynamicArray<int>.
NextArray ==
    \/ ArrayPushBack
    \/ ArrayPopBack
    \/ ArrayReserve
    \/ ArrayInsert
    \/ ArrayErase
    \/ ArrayClear

SpecArray == Init /\ [][NextArray]_vars



---------------------------------------------------------------------------
(* Properties *)

Min(S) == CHOOSE x \in S : \A y \in S : x <= y

\* The nodes whose stored hash modulo bucket_count_ is n.
Members(t, n) == {c \in 1..Len(t.elements_) : BucketOf(t, c) = n}

\* Bucket n is one contiguous run of the list and its slot refers to the
\* first node of the run, or to end() when the bucket is empty.
BucketContiguous(t, n) ==
    IF Members(t, n) = {}
    THEN SlotAt(t, n) = End
    ELSE /\ \A c \in Members(t, n), d \in Members(t, n) :
               \A e \in c..d : e \in Members(t, n)
         /\ SlotAt(t, n) = Min(Members(t, n))

BucketContiguity(t) == \A n \in 0..(t.bucket_count_ - 1) : BucketContiguous(t, n)

\* C1: in every state reached by emplace, erase, rehash, reserve and clear,
\* every bucket of the table is one contiguous run of the backing list whose
\* first node its slot refers to, and the slot of an empty bucket refers to
\* the end sentinel.
C1_BucketContiguityInvariant == ~ub => BucketContiguity(tables["a"])

\* What find/at report for key k: the value of the node find returns, or
\* "absent" when find returns end().
ValueAt(t, k) ==
    LET c == find(t, k)
    IN  IF c > 0 THEN t.elements_[c].value ELSE "absent"

\* The abstract map a table presents through find/at.
Abs(t) == [k \in KeysEE |-> ValueAt(t, k)]

Present(m) == {k \in DOMAIN m : m[k] # "absent"}

\* The reference map (key -> first value inserted) after one operation.
RefStep(m, op, k, v) ==
    IF op = "emplace" THEN (IF m[k] = "absent" THEN [m EXCEPT ![k] = v] ELSE m)
    ELSE IF op = "erase_key" THEN [m EXCEPT ![k] = "absent"]
    ELSE m

\* The operation ran to completion: it neither threw nor left defined
\* behaviour.
Completed(l) == l.res \in {"inserted", "inserted_grown", "inserted_unrehashed", "done"}

\* C2: from a default-constructed table, every completed emplace(k, v) and
\* erase(k) changes what find/at/size report exactly as the same operation
\* changes a reference map from keys to first-inserted values, growth
\* rehashes included.
C2_RefinesReferenceMap ==
    [][Completed(last')
         => /\ Abs(tables'["a"]) =
                  RefStep(Abs(tables["a"]), last'.op, last'.arg, last'.val)
            /\ tables'["a"].size_ = Cardinality(Present(Abs(tables'["a"])))]_vars

\* C3: rehash(n) leaves size() unchanged and discards no key: every key
\* find reported before the call is reported afterwards with the same value.
C3_RehashKeepsKeys ==
    [][last'.op = "rehash" /\ ~ub'
         => /\ tables'["a"].size_ = tables["a"].size_
            /\ \A k \in Keys :
                 ValueAt(tables["a"], k) # "absent"
                   => ValueAt(tables'["a"], k) = ValueAt(tables["a"], k)]_vars

\* C4: in every reachable state, swap, copy/move construction and copy/move
\* assignment included, size() of each table equals the number of nodes in
\* its backing list.
C4_SizeIsNodeCount ==
    ~ub => \A id \in TableIds : tables[id].size_ = Len(tables[id].elements_)

\* size() <= rehash_threshold, and load_factor() = size / bucket_count is
\* at most max_load_factor() = 4/5.
LoadOK(t) ==
    /\ t.size_ <= t.rehash_threshold_
    /\ t.size_ * LoadDen <= t.bucket_count_ * LoadNum

\* C5 as stated: after every mutating operation size() <= rehash_threshold,
\* that is load_factor() <= max_load_factor().
C5_LoadFactorInvariant == ~ub => LoadOK(tables["a"])

\* C5 amended: every mutating operation on a table with size() <=
\* rehash_threshold leaves size() <= rehash_threshold and load_factor() <=
\* 0.8, unless it is an emplace (or operator[]) that inserted although the
\* allocation of its growth rehash failed; after such an insertion size() <=
\* bucket_count().
C5_LoadFactorPreserved ==
    [][/\ LoadOK(tables["a"]) /\ ~ub' /\ last'.res # "inserted_unrehashed"
          => LoadOK(tables'["a"])
       /\ last'.res = "inserted_unrehashed"
          => tables'["a"].size_ <= tables'["a"].bucket_count_]_vars

\* An emplace has just grown the table from 7 to 17 buckets for its sixth
\* element.
C5_GrownOnSixth ==
    /\ ~ub
    /\ last.op = "emplace" /\ last.res = "inserted_grown"
    /\ tables["a"].size_ = 6 /\ tables["a"].bucket_count_ = 17
    /\ Len(tables["a"].hash_table_) = 17
    /\ LoadOK(tables["a"])

Inserted(l) ==
    l.op = "emplace" /\ l.res \in {"inserted", "inserted_grown", "inserted_unrehashed"}

\* C6: right after emplace(k, v) returned inserted = true, growth rehash or
\* not, find(k) is a cursor on value v; and right after the erase(k) that
\* follows it, find(k) is end().
C6_EmplaceFindErase ==
    [][/\ Inserted(last') /\ ~ub'
          => ValueAt(tables'["a"], last'.arg) = last'.val
       /\ Inserted(last) /\ last'.op = "erase_key" /\ last'.arg = last.arg /\ ~ub'
          /\ last'.res = "done"
          => find(tables'["a"], last'.arg) = End]_vars

\* C7: emplace (through which insert and try_emplace go) of a key that is
\* already stored returns the existing element with inserted = false and
\* changes nothing, whatever size + 1 is against rehash_threshold: an emplace
\* that completes inserts only a key no node of the list holds, and otherwise
\* returns a cursor on a node with the key and leaves the table as it was.
C7_EmplaceStoredKeyIsNoOp ==
    [][last'.op = "emplace" /\ ~ub'
         => /\ Inserted(last') => ~HasKey(tables["a"], last'.arg)
            /\ last'.res = "done"
                 => /\ tables'["a"] = tables["a"]
                    /\ last'.it > 0
                    /\ tables["a"].elements_[last'.it].key = last'.arg]_vars

\* C8: erase(cursor) on a valid non-end cursor removes exactly that element:
\* size() drops by one, find of its key is end(), every other key found
\* before is found afterwards with its value, bucket_count() is unchanged;
\* erase(end()) and erase(key) of a key find does not report change nothing.
C8_EraseRemovesExactlyOne ==
    [][~ub'
         => /\ last'.op = "erase" /\ last'.arg # End
                 => LET t == tables["a"]
                        u == tables'["a"]
                        erased == t.elements_[last'.arg].key
                    IN  /\ u.size_ = t.size_ - 1
                        /\ find(u, erased) = End
                        /\ \A k \in Keys \ {erased} :
                             ValueAt(t, k) # "absent" => ValueAt(u, k) = ValueAt(t, k)
                        /\ u.bucket_count_ = t.bucket_count_
            /\ last'.op = "erase" /\ last'.arg = End => tables'["a"] = tables["a"]
            /\ last'.op = "erase_key" /\ find(tables["a"], last'.arg) = End
                 => tables'["a"] = tables["a"]]_vars

IsPrimeNumber(p) == p > 1 /\ \A d \in 2..(p - 1) : p % d # 0

SmallestPrimeAtLeast(n) ==
    CHOOSE p \in n..(2 * n) :
        IsPrimeNumber(p) /\ \A q \in n..(p - 1) : ~IsPrimeNumber(q)

\* What emplace asks rehash for is the smallest prime >= twice the count.
NextPrimeOfDouble ==
    \A n \in MIN_BUCKET_COUNT..MaxBucketCount :
        next_prime(2 * n) = SmallestPrimeAtLeast(2 * n)

\* Cursor target lies in the run that the slot of bucket b starts.
RECURSIVE InRunFrom(_, _, _, _)
InRunFrom(t, b, c, target) ==
    IF c <= 0 THEN FALSE
    ELSE IF BucketOf(t, c) # b THEN FALSE
    ELSE IF c = target THEN TRUE
    ELSE InRunFrom(t, b, Succ(t, c), target)

InBucketRun(t, target) ==
    LET b == BucketOf(t, target)
    IN  InRunFrom(t, b, SlotAt(t, b), target)

InsertedBy(l) ==
    /\ l.op \in {"emplace", "subscript"}
    /\ l.res \in {"inserted", "inserted_grown", "inserted_unrehashed"}

\* The growth rule for one insertion that took table t to table u and
\* returned cursor it.
GrowthRule(t, u, it) ==
    IF t.size_ + 1 > t.rehash_threshold_
    THEN /\ u.bucket_count_ = SmallestPrimeAtLeast(2 * t.bucket_count_)
         /\ InBucketRun(u, it)
    ELSE u.bucket_count_ = t.bucket_count_

\* C9 as stated: an insertion with size + 1 > rehash_threshold makes
\* bucket_count the smallest prime >= twice the old count and places the
\* node in its bucket under the new count; any other emplace leaves
\* bucket_count unchanged; more than five elements mean bucket_count > 7.
C9_GrowthRule ==
    [][~ub' /\ last'.op \in {"emplace", "subscript"}
         => /\ InsertedBy(last') => GrowthRule(tables["a"], tables'["a"], last'.it)
            /\ InsertedBy(last') /\ tables'["a"].size_ > Threshold(MIN_BUCKET_COUNT)
                 => tables'["a"].bucket_count_ > MIN_BUCKET_COUNT
            /\ last'.res = "done"
                 => tables'["a"].bucket_count_ = tables["a"].bucket_count_]_vars

\* C9 amended: the same, except that an insertion whose growth rehash could
\* not allocate its bucket array leaves bucket_count unchanged and is exempt
\* from the bound on the element count; and next_prime(2 * n) is the smallest
\* prime >= 2 * n for every bucket count n up to MaxBucketCount.
C9_GrowthRuleUnlessAllocationFails ==
    [][~ub' /\ last'.op \in {"emplace", "subscript"}
         => /\ NextPrimeOfDouble
            /\ InsertedBy(last') /\ last'.res # "inserted_unrehashed"
                 => /\ GrowthRule(tables["a"], tables'["a"], last'.it)
                    /\ last'.res = "inserted_grown"
                         <=> tables["a"].size_ + 1 > tables["a"].rehash_threshold_
                    /\ tables'["a"].size_ > Threshold(MIN_BUCKET_COUNT)
                         => tables'["a"].bucket_count_ > MIN_BUCKET_COUNT
            /\ last'.res \in {"done", "inserted_unrehashed"}
                 => tables'["a"].bucket_count_ = tables["a"].bucket_count_]_vars

\* The sixth distinct key has just been inserted into a table of 7 buckets,
\* which grew to 17, and the new node heads its bucket.
C9_SixthKeyGrows ==
    /\ ~ub
    /\ last.op = "emplace" /\ last.res = "inserted_grown" /\ last.arg = 4
    /\ tables["a"].bucket_count_ = 17
    /\ Len(tables["a"].elements_) = 6
    /\ SlotAt(tables["a"], 4) = last.it
    /\ tables["a"].elements_[last.it].key = 4

\* C10: copy construction and copy assignment give a table with the source's
\* size() and the same key -> value mapping under find/at and leave the
\* source as it was; afterwards an operation on one table does not change
\* the other.
C10_CopyEqualAndIndependent ==
    [][~ub'
         => /\ last'.op \in {"copy_construct", "copy_assign"}
                 => LET source == tables[Other(last'.tid)]
                        copy == tables'[last'.tid]
                    IN  /\ copy.size_ = source.size_
                        /\ Abs(copy) = Abs(source)
                        /\ tables'[Other(last'.tid)] = source
            /\ last'.op \in {"emplace", "erase_key", "rehash"}
                 => tables'[Other(last'.tid)] = tables[Other(last'.tid)]]_vars

Moved(l) == l.op \in {"move_construct", "move_assign"}

\* C11: after move construction or move assignment the destination holds
\* exactly the source's former key/value pairs (every key find reported in
\* the source is found with its value in the destination, and no other), and
\* the destination's size() is the source's former size().
C11_MoveGivesSourcePairs ==
    [][Moved(last')
         => LET source == tables[Other(last'.tid)]
                destination == tables'[last'.tid]
            IN  /\ Abs(destination) = Abs(source)
                /\ destination.size_ = source.size_]_vars

\* C12: a table that was just moved from has size() 0 and an empty list, and
\* stays usable: find of any key returns end() without reading a bucket slot
\* that does not exist or following a null cursor, and an emplace that
\* follows the move and does not run out of memory inserts its key and makes
\* it findable.
C12_MovedFromEmptyAndUsable ==
    [][/\ Moved(last')
          => LET source == tables'[Other(last'.tid)]
             IN  /\ source.size_ = 0
                 /\ source.elements_ = <<>>
                 /\ \A k \in KeysPair : find(source, k) = End
       /\ Moved(last) /\ last'.op = "emplace" /\ last'.tid = Other(last.tid)
          => /\ ~ub'
             /\ last'.res # "threw"
                  => /\ Inserted(last')
                     /\ ValueAt(tables'[last'.tid], last'.arg) = last'.val]_vars

\* C13: operator[](k) that completes returns a reference into a node of key
\* k; when no node held k it inserted one with a default-constructed (empty)
\* value and size() grew by exactly one; when a node held k, size() and the
\* table are unchanged and the reference is to the stored value; a value
\* assigned through the reference is what at(k) then returns.
C13_SubscriptVivifies ==
    [][~ub' /\ last'.op \in {"subscript", "subscript_assign"} /\ last'.res # "threw"
         => LET t == tables["a"]
                u == tables'["a"]
                k == last'.arg
            IN  /\ last'.it > 0
                /\ u.elements_[last'.it].key = k
                /\ ~HasKey(t, k)
                     => /\ u.size_ = t.size_ + 1
                        /\ last'.op = "subscript" => u.elements_[last'.it].value = ""
                /\ HasKey(t, k)
                     => /\ u.size_ = t.size_
                        /\ u.elements_ = IF last'.op = "subscript" THEN t.elements_
                                         ELSE [t.elements_ EXCEPT ![last'.it].value = last'.val]
                /\ last'.op = "subscript_assign" => ValueAt(u, k) = last'.val]_vars

\* C14: at(k) and operator[](k) const leave the table unchanged; on a key
\* that no node holds they fail with out_of_range, and on a stored key they
\* return the value of a node holding it.
C14_AtChecksKey ==
    [][~ub' /\ last'.op = "at"
         => LET t == tables["a"]
            IN  /\ tables' = tables
                /\ ~HasKey(t, last'.arg) => last'.res = "threw"
                /\ HasKey(t, last'.arg)
                     => /\ last'.res = "done"
                        /\ \E c \in 1..Len(t.elements_) :
                              /\ t.elements_[c].key = last'.arg
                              /\ t.elements_[c].value = last'.val]_vars

\* The cursors a caller's loop for (it = begin(n); it != end(n); ++it)
\* visits, End standing for the sentinel; the loop is followed for at most
\* fuel steps.
RECURSIVE Walk(_, _, _, _)
Walk(t, c, stop, fuel) ==
    IF c = stop \/ c < 0 \/ fuel = 0 THEN <<>>
    ELSE <<c>> \o Walk(t, RingSucc(t, c), stop, fuel - 1)

BucketWalk(t, n) ==
    Walk(t, begin_bucket(t, n), end_bucket(t, n), Len(t.elements_) + 2)

\* C15: for every non-empty bucket b, the walk from begin(b) until end(b)
\* visits exactly the nodes whose stored hash modulo bucket_count is b: it
\* starts on a node, visits each node of the bucket once, and never visits
\* the sentinel or a node of another bucket.
C15_BucketRangeIsBucket ==
    ~ub => \A n \in 0..(tables["a"].bucket_count_ - 1) :
              Members(tables["a"], n) # {}
                => LET w == BucketWalk(tables["a"], n)
                   IN  /\ begin_bucket(tables["a"], n) > 0
                       /\ Len(w) = Cardinality(Members(tables["a"], n))
                       /\ {w[i] : i \in 1..Len(w)} = Members(tables["a"], n)

\* The nodes of the half-open range [first, second) in list order.
RangeOf(t, first, second) ==
    IF first = End THEN {}
    ELSE first..((IF second = End THEN Len(t.elements_) + 1 ELSE second) - 1)

\* C18: erase(first, last) removes exactly the elements of [first, last):
\* afterwards find of each of their keys is end(), every element outside
\* the range (the one at last included) that find reported is still found
\* with its value, and size() has dropped by the number of elements in the
\* range.
C18_EraseRangeRemovesRange ==
    [][~ub' /\ last'.op = "erase_range"
         => LET t == tables["a"]
                u == tables'["a"]
                range == RangeOf(t, last'.arg, last'.it)
            IN  /\ \A c \in range : find(u, t.elements_[c].key) = End
                /\ \A c \in (1..Len(t.elements_)) \ range :
                      find(t, t.elements_[c].key) = c
                        => ValueAt(u, t.elements_[c].key) = t.elements_[c].value
                /\ u.size_ = t.size_ - Cardinality(range)
                /\ Len(u.elements_) = Len(t.elements_) - Cardinality(range)]_vars

Satisfies(pred, node) == pred = "all" \/ (pred = "key7" /\ node.key = 7)

Matching(t, pred) == {c \in 1..Len(t.elements_) : Satisfies(pred, t.elements_[c])}

\* C19: erase_if(pred) completes and returns the number of stored elements
\* that satisfied pred; afterwards no stored element satisfies pred, every
\* element that did not satisfy it is still stored with its value, and
\* size() has dropped by the returned count.
C19_EraseIfErasesMatches ==
    [][last'.op = "erase_if"
         => LET t == tables["a"]
                u == tables'["a"]
                pred == last'.val
            IN  /\ last'.res = "done"
                /\ last'.arg = Cardinality(Matching(t, pred))
                /\ Matching(u, pred) = {}
                /\ \A c \in (1..Len(t.elements_)) \ Matching(t, pred) :
                      \E d \in 1..Len(u.elements_) : u.elements_[d] = t.elements_[c]
                /\ u.size_ = t.size_ - last'.arg]_vars

\* Every bucket slot of t refers to the sentinel or to a node of t's list.
HeadsInList(t) ==
    \A i \in 1..Len(t.hash_table_) : t.hash_table_[i] \in 0..Len(t.elements_)

\* What clear() promises of a table.
Cleared(t) ==
    /\ t.size_ = 0
    /\ t.elements_ = <<>>
    /\ t.bucket_count_ = MIN_BUCKET_COUNT
    /\ Len(t.hash_table_) = MIN_BUCKET_COUNT
    /\ \A n \in 0..(MIN_BUCKET_COUNT - 1) : SlotAt(t, n) = End
    /\ \A k \in KeysLife \cup {1} : find(t, k) = End

\* C16: clear() on any table (filled, rehashed, reserved, moved from, moved
\* or swapped into) leaves size() 0, an empty list, bucket_count() 7 with
\* every slot end(), no key findable and the other table untouched; and an
\* emplace that follows it on the same table and does not run out of memory
\* inserts its key as the only element and makes it findable.
C16_ClearResets ==
    [][/\ last'.op = "clear"
          => /\ ~ub'
             /\ Cleared(tables'[last'.tid])
             /\ tables'[Other(last'.tid)] = tables[Other(last'.tid)]
       /\ last.op = "clear" /\ last'.op = "emplace" /\ last'.tid = last.tid
          => /\ ~ub'
             /\ last'.res # "threw"
                  => /\ last'.res = "inserted"
                     /\ tables'[last'.tid].size_ = 1
                     /\ Len(tables'[last'.tid].elements_) = 1
                     /\ ValueAt(tables'[last'.tid], last'.arg) = last'.val]_vars

\* clear() has just destroyed the two nodes of table "a".
C16_ClearedTwoNodes ==
    /\ ~ub
    /\ last.op = "clear" /\ last.tid = "a" /\ last.arg >= 2
    /\ Cleared(tables["a"])

C20_ErasedCursorIsInvalid ==
    [][/\ last'.op = "list_erase" /\ last'.res = "done" /\ last'.arg # head_
          => ~cursor'.is_valid_
       /\ cursor.node_ = Dangling /\ last'.op \in {"dereference", "increment"}
          => last'.res = "threw"]_vars

---------------------------------------------------------------------------
(* List *)

\* The nodes of a list in list order: those met by following next from the
\* sentinel back to the sentinel.
RECURSIVE NodesFrom(_, _, _)
NodesFrom(l, n, fuel) ==
    IF n = head_ \/ fuel = 0 THEN <<>>
    ELSE <<n>> \o NodesFrom(l, l.next[n], fuel - 1)

Order(l) == NodesFrom(l, l.next[head_], MaxListNodes + 1)

\* The elements of a list in list order.
Elements(l) == [i \in 1..Len(Order(l)) |-> l.data_[Order(l)[i]]]

\* The index of node n in a sequence of nodes, one past its end for the
\* sentinel.
IndexOf(nodes, n) ==
    IF \E i \in 1..Len(nodes) : nodes[i] = n
    THEN CHOOSE i \in 1..Len(nodes) : nodes[i] = n
    ELSE Len(nodes) + 1

InsertAt(nodes, i, n) ==
    SubSeq(nodes, 1, i - 1) \o <<n>> \o SubSeq(nodes, i, Len(nodes))

RemoveAt(nodes, i) ==
    SubSeq(nodes, 1, i - 1) \o SubSeq(nodes, i + 1, Len(nodes))

Inserting == {"emplace", "push_back", "push_front"}

Erasing == {"erase", "pop_back", "pop_front"}

\* C21: an iterator the caller holds to a node or to end() is the same
\* iterator object, flag included, after any emplace, insert, push_back or
\* push_front (also when it was the position argument) and after any erase
\* or pop of a different node; its node is still in the list and holds the
\* same element.
C21_CursorsStayValid ==
    [][/\ last'.tid = "list"
       /\ \/ last'.op \in Inserting
          \/ last'.op \in Erasing /\ last'.arg # cursor.node_
       /\ cursor.node_ \in list.live \cup {head_}
       /\ cursor.is_valid_
       => /\ cursor' = cursor
          /\ cursor'.is_valid_
          /\ cursor.node_ \in list'.live \cup {head_}
          /\ cursor.node_ # head_
             => list'.data_[cursor.node_] = list.data_[cursor.node_]]_vars

\* C21 witness: an emplace came back whose position was the node the
\* caller's iterator is on, and the iterator is still valid on that node.
C21_EmplacedAtHeldCursor ==
    /\ last.tid = "list" /\ last.op = "emplace" /\ last.res = "done"
    /\ last.arg = cursor.node_
    /\ cursor.node_ \in list.live
    /\ cursor.is_valid_
    /\ list.next[last.it] = cursor.node_

\* C22: an emplace or insert at a position (push_back and push_front are
\* inserts at end() and at begin()) that completes puts a new node directly
\* before the position's node (last when the position is end()), returns an
\* iterator to that node, which holds the value, increases size() by one,
\* and leaves every other node where it was in the order, with its element.
C22_EmplaceBeforePosition ==
    [][last'.tid = "list" /\ last'.op \in Inserting /\ last'.res = "done"
       => LET position == last'.arg
              new_node == last'.it
          IN  /\ new_node \notin list.live \cup {head_}
              /\ Order(list') = InsertAt(Order(list), IndexOf(Order(list), position),
                                         new_node)
              /\ list'.next[new_node] = position
              /\ list'.data_[new_node] = last'.val
              /\ list'.size_ = list.size_ + 1
              /\ Len(Order(list')) = list'.size_
              /\ \A n \in list.live : list'.data_[n] = list.data_[n]]_vars

\* C22 witness: an emplace put its node between two nodes.
C22_EmplacedInTheMiddle ==
    /\ last.tid = "list" /\ last.op = "emplace" /\ last.res = "done"
    /\ last.arg # head_
    /\ list.next[last.it] = last.arg
    /\ list.prev[last.it] # head_
    /\ list.size_ = 3

\* C23: erase of a node (pop_back and pop_front are erases of the last and
\* of the first node) removes that node and no other, decreases size() by
\* one, keeps the order and the elements of the other nodes and returns an
\* iterator to the node that followed the removed one, end() when it was the
\* last; erase(end()) changes nothing and returns end().
C23_EraseRemovesTheNode ==
    [][last'.tid = "list" /\ last'.op \in Erasing
       => LET node == last'.arg
          IN  IF node = head_
              THEN list' = list /\ last'.it = head_
              ELSE /\ Order(list') = RemoveAt(Order(list), IndexOf(Order(list), node))
                   /\ node \in list.live
                   /\ list'.live = list.live \ {node}
                   /\ list'.size_ = list.size_ - 1
                   /\ Len(Order(list')) = list'.size_
                   /\ \A n \in list'.live : list'.data_[n] = list.data_[n]
                   /\ last'.it = list.next[node]]_vars

\* C23 witness: an erase removed a node between two nodes and returned the
\* iterator to the second.
C23_ErasedInTheMiddle ==
    /\ last.tid = "list" /\ last.op = "erase"
    /\ last.arg \notin list.live \cup {head_}
    /\ last.it \in list.live
    /\ list.prev[last.it] \in list.live
    /\ list.size_ = 2

\* C24: front() and back() throw exactly when no node is in the list;
\* otherwise front() is the element of the first node in list order and
\* back() that of the last.
C24_FrontAndBack ==
    [][last'.tid = "list" /\ last'.op \in {"front", "back"}
       => /\ last'.res = "threw" <=> Order(list) = <<>>
          /\ last'.res = "done" <=> Order(list) # <<>>
          /\ last'.res = "done" /\ last'.op = "front"
             => last'.val = Elements(list)[1]
          /\ last'.res = "done" /\ last'.op = "back"
             => last'.val = Elements(list)[Len(Order(list))]]_vars

\* C24 witness: front() returned the first element of a list whose last
\* element is another value.
C24_FrontOfTwoDifferent ==
    /\ last.tid = "list" /\ last.op = "front" /\ last.res = "done"
    /\ list.size_ >= 2
    /\ last.val = list.data_[list.next[head_]]
    /\ last.val # list.data_[list.prev[head_]]

\* C26: a push_back, push_front or emplace whose element construction
\* throws ends with the exception and leaves the list as it was: size_,
\* nodes, elements and links.
C26_FailedConstructionChangesNothing ==
    [][last'.tid = "list" /\ last'.op \in Inserting
       => /\ last'.res \in {"done", "threw"}
          /\ last'.res = "threw" => list' = list]_vars

\* C26 witness: an emplace before a node of a list of two threw.
C26_EmplaceThrewOnTwoNodes ==
    /\ last.tid = "list" /\ last.op = "emplace" /\ last.res = "threw"
    /\ last.arg \in list.live
    /\ list.size_ = 2

\* A valid empty list: size() == 0, begin() == end(), the sentinel linked
\* to itself in both directions and no node.
ValidEmpty(l) ==
    /\ l.size_ = 0
    /\ List_begin(l) = List_end(l)
    /\ l.prev[head_] = head_
    /\ l.live = {}

\* C25: a move construction or a move assignment gives the destination the
\* elements the source had, in the same order, with the source's size, and
\* leaves the source a valid empty list; clear() on the moved-from list
\* leaves it a valid empty list and push_back(v) makes v its only element.
C25_MoveLeavesSourceEmpty ==
    [][/\ last'.tid = "list" /\ last'.op \in {"move_construct", "move_assign"}
          => /\ Elements(moved_list') = Elements(list)
             /\ moved_list'.size_ = list.size_
             /\ ValidEmpty(list')
       /\ last'.tid = "list" /\ last'.op = "move_assign_back"
          => /\ Elements(list') = Elements(moved_list)
             /\ list'.size_ = moved_list.size_
             /\ ValidEmpty(moved_list')
       /\ last.tid = "list" /\ last.op \in {"move_construct", "move_assign"}
          => /\ last'.op = "clear" => ValidEmpty(list')
             /\ last'.op = "push_back" /\ last'.res = "done"
                => /\ Elements(list') = <<last'.val>>
                   /\ list'.size_ = 1
                   /\ list'.prev[head_] = list'.next[head_]]_vars

\* C25 witness: a move assignment gave the destination the two different
\* elements of the source, in their order, and the source is empty.
C25_MoveAssignedTwoElements ==
    /\ last.tid = "list" /\ last.op = "move_assign" /\ last.arg = 2
    /\ Elements(moved_list) = <<1, 2>>
    /\ list.size_ = 0
    /\ list.next[head_] = head_

---------------------------------------------------------------------------
(* DynamicArray *)

\* The elements of an array in index order.
Items(a) == SubSeq(a.data_, 1, a.size_)

\* The smallest power of two that is at least n.
SmallestPowerOfTwo(n) == Min({p \in {2 ^ k : k \in 0..MaxCapacity} : p >= n})

\* What one push_back does: the capacity_ rule and the appended element.
PushBackRule ==
    last'.tid = "array" /\ last'.op = "push_back"
    => /\ array.size_ = array.capacity_
          => array'.capacity_ = Max(1, 2 * array.capacity_)
       /\ array.size_ < array.capacity_ => array'.capacity_ = array.capacity_
       /\ Items(array') = Append(Items(array), last'.val)

\* C27 as stated: size_ <= capacity_ in every state, the capacity_ rule of
\* push_back, and after n push_backs in a row onto an array with size() 0
\* the capacity is the smallest power of two >= n.
C27_PowerOfTwoFromAnyEmpty ==
    /\ [](array.size_ <= array.capacity_)
    /\ [][PushBackRule]_vars
    /\ [](last.tid = "array" /\ last.op = "push_back" /\ last.it >= 1
          => /\ array.size_ = last.it
             /\ array.capacity_ = SmallestPowerOfTwo(last.it))

\* C27 amended: the same, with the power of two for n >= 1 push_backs in a
\* row onto a default-constructed array (size 0 and capacity 0).
C27_PowerOfTwoFromDefault ==
    /\ [](array.size_ <= array.capacity_)
    /\ [][PushBackRule]_vars
    /\ [](last.tid = "array" /\ last.op = "push_back" /\ last.it >= 1
          /\ last.arg = 0
          => /\ array.size_ = last.it
             /\ array.capacity_ = SmallestPowerOfTwo(last.it))

\* C27 witness: the fifth push_back in a row onto a default-constructed
\* array left capacity 8.
C27_FifthPushBack ==
    /\ last.tid = "array" /\ last.op = "push_back"
    /\ last.arg = 0 /\ last.it = 5
    /\ array.capacity_ = 8
    /\ array.size_ = 5

\* C28: reserve(c) leaves capacity() >= c and not below what it was, and
\* changes neither size() nor the elements or their order.
C28_ReserveKeepsElements ==
    [][last'.tid = "array" /\ last'.op = "reserve"
       => /\ array'.capacity_ >= last'.arg
          /\ array'.capacity_ >= array.capacity_
          /\ array'.size_ = array.size_
          /\ Items(array') = Items(array)]_vars

\* C28 witness: a reserve of more than four slots returned on an array of
\* two different elements, whose capacity is the one asked for.
C28_ReservedWithTwoElements ==
    /\ last.tid = "array" /\ last.op = "reserve"
    /\ array.capacity_ = last.arg
    /\ last.arg > 4
    /\ Items(array) = <<1, 2>>

\* C29: insert(i, v) with i <= size() gives the sequence with v at index i
\* and the former elements i.. one index higher; erase(i) with i < size()
\* gives the sequence without element i; with an index beyond these bounds
\* the call throws and the array is unchanged.
C29_InsertAndEraseShift ==
    [][/\ last'.tid = "array" /\ last'.op = "insert"
          => IF last'.arg <= array.size_
             THEN /\ last'.res = "done"
                  /\ Items(array') = InsertAt(Items(array), last'.arg + 1, last'.val)
             ELSE last'.res = "threw" /\ array' = array
       /\ last'.tid = "array" /\ last'.op = "erase"
          => IF last'.arg < array.size_
             THEN /\ last'.res = "done"
                  /\ Items(array') = RemoveAt(Items(array), last'.arg + 1)
             ELSE last'.res = "threw" /\ array' = array]_vars

\* C29 witness: an insert at index 1 of a full array of two elements put
\* its value between them.
C29_InsertedInTheMiddle ==
    /\ last.tid = "array" /\ last.op = "insert" /\ last.res = "done"
    /\ last.arg = 1 /\ last.val = 2
    /\ Items(array) = <<1, 2, 1>>
    /\ array.capacity_ = 4

---------------------------------------------------------------------------
(* The bucket index array *)

\* Slot i of the bucket array (bucket i - 1) holds end() or the cursor of a
\* node of the list whose stored hash reduces to the slot's bucket and which
\* no node of that bucket precedes in the list.
SlotIsBucketHead(t, i) ==
    LET c == t.hash_table_[i]
    IN  \/ c = End
        \/ /\ c \in 1..Len(t.elements_)
           /\ BucketOf(t, c) = i - 1
           /\ \A d \in 1..(c - 1) : BucketOf(t, d) # i - 1

\* C30: in every state every slot of the bucket array of every table holds
\* end() or the cursor of the first node in list order whose stored hash
\* reduces to the slot's index; no slot is null, dangling or refers to a
\* node of another bucket, also after an erase of a bucket head, a rehash, a
\* reserve and a move from the table.
C30_SlotsAreBucketHeads ==
    ~ub => \A id \in TableIds :
              \A i \in 1..Len(tables[id].hash_table_) :
                 SlotIsBucketHead(tables[id], i)

\* C31: in every state the bucket array of every table has bucket_count_
\* slots, so that every index hash % bucket_count_ is the index of a slot;
\* also for a table constructed with a bucket count below MIN_BUCKET_COUNT
\* and for a moved-from table.
C31_BucketArrayHasBucketCountSlots ==
    ~ub => \A id \in TableIds :
              Len(tables[id].hash_table_) = tables[id].bucket_count_

\* floor(n * 0.8) and ceil(n / 0.8) as integers
FloorOfLoad(n) ==
    CHOOSE m \in 0..n : m * LoadDen <= n * LoadNum /\ (m + 1) * LoadDen > n * LoadNum

CeilOfLoad(n) ==
    CHOOSE m \in 0..(2 * n) : m * LoadNum >= n * LoadDen /\ (m - 1) * LoadNum < n * LoadDen

\* C32: a rehash(n) that returns leaves bucket_count_ the largest of n, 7
\* and ceil(size_ / 0.8) and rehash_threshold_ floor(bucket_count_ * 0.8),
\* and changes nothing when that count is the current bucket_count_; in
\* every state rehash_threshold_ is floor(bucket_count_ * 0.8).
C32_RehashCountAndThreshold ==
    /\ [][last'.op = "rehash" /\ last'.res = "done"
          => LET t == tables[last'.tid]
                 u == tables'[last'.tid]
                 count == Max(Max(last'.arg, 7), CeilOfLoad(t.size_))
             IN  /\ u.bucket_count_ = count
                 /\ u.rehash_threshold_ = FloorOfLoad(count)
                 /\ count = t.bucket_count_ => u = t]_vars
    /\ [](\A id \in TableIds :
             tables[id].rehash_threshold_ = FloorOfLoad(tables[id].bucket_count_))

\* C32 witness: rehash(0) on six elements in 17 buckets left 8 buckets and
\* a threshold of 6.
C32_RehashedToEight ==
    /\ last.op = "rehash" /\ last.res = "done" /\ last.arg = 0
    /\ tables[last.tid].size_ = 6
    /\ tables[last.tid].bucket_count_ = 8
    /\ tables[last.tid].rehash_threshold_ = 6

\* emplace(k, ..) on t when the allocation of its growth rehash fails.
GrowthFails(t, k) == emplace(t, k, "one", TRUE, FALSE)

\* C33: when the growth rehash of an emplace fails to allocate, then with
\* size_ < bucket_count_ the key is inserted under the unchanged
\* bucket_count_, size_ grows by one and emplace returns true, and with
\* size_ >= bucket_count_ the bad_alloc reaches the caller and the table is
\* as it was.
C33_GrowthFailure ==
    /\ [](~ub => \A k \in KeysFail :
             LET t == tables["a"]
                 r == GrowthFails(t, k)
             IN  ~r.ub /\ (r.swallowed \/ r.threw)
                 => IF t.size_ < t.bucket_count_
                    THEN /\ r.inserted /\ ~r.threw
                         /\ r.t.bucket_count_ = t.bucket_count_
                         /\ r.t.hash_table_[(Hash(k) % t.bucket_count_) + 1] # End
                         /\ r.t.size_ = t.size_ + 1
                         /\ HasKey(r.t, k) /\ ~HasKey(t, k)
                    ELSE r.threw /\ r.t = t)
    /\ [][last'.op = "emplace" /\ last'.res = "inserted_unrehashed"
          => LET t == tables[last'.tid]
                 u == tables'[last'.tid]
             IN  /\ t.size_ < t.bucket_count_
                 /\ u.bucket_count_ = t.bucket_count_
                 /\ u.size_ = t.size_ + 1
                 /\ Len(u.elements_) = Len(t.elements_) + 1
                 /\ u.elements_[last'.it].key = last'.arg]_vars
    /\ [][last'.op = "emplace" /\ last'.res = "threw"
          /\ tables[last'.tid].size_ >= tables[last'.tid].bucket_count_
          /\ tables'[last'.tid].bucket_count_ = tables[last'.tid].bucket_count_
          => tables' = tables]_vars

\* C33 witness: an emplace on seven elements in seven buckets threw and the
\* table still has seven elements in seven buckets.
C33_ThrewAtSevenOfSeven ==
    /\ last.op = "emplace" /\ last.res = "threw"
    /\ tables["a"].size_ = 7
    /\ Len(tables["a"].elements_) = 7
    /\ tables["a"].bucket_count_ = 7

\* C34: in every state reached by emplace, insert, operator[], erase, rehash
\* and reserve, no two nodes of the backing list have equal keys.
C34_KeysAreUnique ==
    ~ub => \A id \in TableIds :
              \A c, d \in 1..Len(tables[id].elements_) :
                 tables[id].elements_[c].key = tables[id].elements_[d].key => c = d

\* C35: a reserve(n) with n above the bucket count of a table leaves
\* bucket_count_ >= n and size_ as it was, and every key stored in the list
\* is found afterwards, with its value; a reserve(n) with n not above the
\* bucket count changes nothing.
C35_ReserveKeepsKeysFindable ==
    [][last'.op = "reserve" /\ last'.res = "done"
       => LET t == tables[last'.tid]
              u == tables'[last'.tid]
          IN  IF last'.arg > t.bucket_count_
              THEN /\ u.bucket_count_ >= last'.arg
                   /\ u.size_ = t.size_
                   /\ \A c \in 1..Len(t.elements_) :
                         /\ find(u, t.elements_[c].key) > 0
                         /\ ValueAt(u, t.elements_[c].key) = ValueAt(t, t.elements_[c].key)
              ELSE u = t]_vars

\* The list is a ring through its sentinel: next and prev are inverse on
\* the sentinel and on every node, and following next from the sentinel
\* visits the size_ nodes of the list, each once, and is back at the
\* sentinel.
Ring(l) ==
    /\ \A n \in l.live \cup {head_} :
          /\ l.next[n] \in l.live \cup {head_}
          /\ l.prev[n] \in l.live \cup {head_}
          /\ l.prev[l.next[n]] = n
          /\ l.next[l.prev[n]] = n
    /\ Len(Order(l)) = l.size_
    /\ {Order(l)[i] : i \in 1..Len(Order(l))} = l.live
    /\ Cardinality(l.live) = l.size_

\* C36: after any sequence of push_back, push_front, pop_back, pop_front,
\* emplace, erase and clear the list is a circular doubly-linked ring
\* through its sentinel with size() nodes.
C36_RingInvariant == ~ub => Ring(list)

\* C36 witness: a pop_back left two nodes of three, the second of which is
\* linked to the sentinel in both directions.
C36_PoppedToTwo ==
    /\ last.tid = "list" /\ last.op = "pop_back"
    /\ last.arg \notin list.live \cup {head_}
    /\ list.size_ = 2
    /\ list.next[list.prev[head_]] = head_
    /\ list.prev[list.prev[head_]] = list.next[head_]

\* The sequence s with the sequence range spliced in after its first index
\* elements.
Splice(s, index, range) ==
    SubSeq(s, 1, index) \o range \o SubSeq(s, index + 1, Len(s))

\* C37: insert(index, first, last) with index <= size, for every range
\* length including 0, terminates and yields the array with the range
\* spliced in at index and all former elements kept in order; an empty
\* range leaves the array unchanged.
C37_RangeInsertSplices ==
    [][(/\ last'.tid = "array" /\ last'.op = "insert_range"
        /\ ~ub /\ last'.arg <= array.size_)
       => /\ ~ub'
          /\ last'.res = "done"
          /\ Items(array') = Splice(Items(array), last'.arg, last'.val)
          /\ Len(last'.val) = 0 => Items(array') = Items(array)]_vars

\* The same for the ranges that are not empty.
C37_NonEmptyRangeSplices ==
    [][(/\ last'.tid = "array" /\ last'.op = "insert_range"
        /\ ~ub /\ last'.arg <= array.size_ /\ Len(last'.val) > 0)
       => /\ ~ub'
          /\ last'.res = "done"
          /\ Items(array') = Splice(Items(array), last'.arg, last'.val)]_vars

\* The other party of a machine.
OtherParty(p) == IF p = "consumer" THEN "producer" ELSE "consumer"

\* C38: with consume() and produce() each called once on a machine, in
\* every interleaving the call that arrives first returns false and the
\* one that arrives second returns true, so exactly one of the two returns
\* true; the state ends as TRYST; once left, INIT is never the state again;
\* a call at its fetch_or can take it whatever the other party does.
C38_Rendezvous ==
    /\ [](\A m \in Machines, p \in Parties :
            /\ callers[<<m, p>>].pc = "returned"
                  => /\ callers[<<m, p>>].ret <=> trysts[m].arrivals[1] = OtherParty(p)
                     /\ trysts[m].state_ # INIT
            /\ (callers[<<m, p>>].pc = "returned"
                   /\ callers[<<m, OtherParty(p)>>].pc = "returned")
                  => /\ callers[<<m, p>>].ret # callers[<<m, OtherParty(p)>>].ret
                     /\ callers[<<m, trysts[m].arrivals[2]>>].ret
                     /\ trysts[m].state_ = TRYST
            /\ callers[<<m, p>>].pc = "calling" => ENABLED TrystFetchOr(m, p))
    /\ [][\A m \in Machines :
            /\ trysts[m].state_ # INIT => trysts'[m].state_ # INIT
            /\ \A p \in Parties :
                  (callers[<<m, p>>].pc = "calling"
                      /\ callers'[<<m, p>>].pc = "returned")
                  => /\ trysts'[m].state_ # trysts[m].state_
                     /\ callers'[<<m, OtherParty(p)>>] = callers[<<m, OtherParty(p)>>]]_vars

\* C38 witness: on one machine the producer came first and the consumer
\* returned true, on another the consumer came first and the producer
\* returned true.
C38_MetBothWays ==
    \E m, n \in Machines :
       /\ trysts[m].arrivals = <<"producer", "consumer">>
       /\ callers[<<m, "consumer">>].ret /\ ~callers[<<m, "producer">>].ret
       /\ trysts[m].state_ = TRYST
       /\ trysts[n].arrivals = <<"consumer", "producer">>
       /\ callers[<<n, "producer">>].ret /\ ~callers[<<n, "consumer">>].ret
       /\ trysts[n].state_ = TRYST

\* The done() calls that are still to decrement count_.
PendingDone ==
    Cardinality({t \in Workers : threads[t].pc \in {"ready", "lock", "locked"}})

\* C39: a wait() call returns only in a state where count_ is 0; with
\* every add(n) matched by n done() calls, in any interleaving, count_
\* never goes below 0 (the assert of done() never fails and count_ is the
\* number of done() calls still to come), and under fair scheduling every
\* wait() that was called returns.
C39_WaitGroup ==
    /\ [](~wg.failed /\ wg.count_ = PendingDone)
    /\ [][\A t \in Waiters :
            (threads[t].pc # "returned" /\ threads'[t].pc = "returned")
            => wg.count_ = 0 /\ wg'.count_ = 0]_vars
    /\ \A t \in Waiters :
          (threads[t].pc # "idle") ~> (threads[t].pc = "returned")

\* C39 witness: a waiter that had blocked has returned after the last of
\* the done() calls.
C39_WokenAfterLastDone ==
    /\ \E t \in Waiters : threads[t].pc = "returned" /\ threads[t].slept
    /\ \A t \in Workers : threads[t].pc = "returned"
    /\ wg.count_ = 0

\* The smallest prime that is at least n (there is one up to 2 * n + 2).
SmallestPrimeFrom(n) == Min({p \in n..(2 * n + 2) : IsPrimeNumber(p)})

C40_IsPrimeAgrees ==
    (last.tid = "prime" /\ last.op = "is_prime")
       => (last.res = "true" <=> IsPrimeNumber(last.arg))

\* next_prime(n) is 2 for n <= 2 and the smallest prime above n for n > 2.
C40_NextPrimeIsAbove ==
    (last.tid = "prime" /\ last.op = "next_prime")
       => last.val = IF last.arg <= 2 THEN 2 ELSE SmallestPrimeFrom(last.arg + 1)

====
